---- MODULE Spec2Model ----
(***************************************************************************)
(* The ad service: AdService (internal/service/service.go) in front of the *)
(* cache-aside repository mysqlAdRepository                                *)
(* (internal/repository/repository.go), which talks to one MySQL table     *)
(* "ads" and to a Redis cache through cache.Cache.                         *)
(*                                                                         *)
(* Every request is served by its own goroutine.  A request is modelled as *)
(* a process that walks through the calls its handler makes, one store or  *)
(* cache call per step; the code between two calls only touches locals and *)
(* is folded into the step of the call before it.                          *)
(***************************************************************************)
EXTENDS Integers, Sequences, FiniteSets, TLC

(***************************************************************************)
(* Bounds of the model.                                                    *)
(***************************************************************************)
MaxId    == 1      \* ids AUTO_INCREMENT hands out
MaxClock == 2      \* seconds CURRENT_TIMESTAMP runs through
MaxCount  == 25    \* rows COUNT(*) reports to the pagination arithmetic
MaxLimit  == 10    \* small page sizes of the pagination arithmetic
MaxOffset == 30    \* small offsets of the pagination arithmetic
\* Go's int (GOARCH=amd64) is a 64-bit two's-complement integer.  The model
\* keeps the same arithmetic at a width the model checker's integers hold.
IntBits == 16
MaxText == 2       \* characters of a number in a query string
MaxRows == 2       \* rows of a table UpdateAd is run on

(***************************************************************************)
(* Program constants.                                                      *)
(***************************************************************************)
TTLMinutes   == 10      \* 10*time.Minute of every cache.Set
DefaultLimit == 10      \* limit of the default pagination
\* net/http status codes
StatusOK                  == 200
StatusBadRequest          == 400
StatusNotFound            == 404
StatusInternalServerError == 500

Procs  == {1, 2}                 \* requests in flight at the same time
Ids    == 1..MaxId
ReqIds == (0 - 1)..MaxId        \* ids a caller may pass, valid or not
RowIds == 1..MaxRows             \* ids of a table filled beforehand

DefaultSortBy == "created_at"
DefaultOrder  == "ASC"
\* The (limit, offset, sortBy, order) a list request may carry: the default
\* pagination and tuples that differ from it in one place or in all.
ListParams ==
    { <<DefaultLimit, 0, DefaultSortBy, DefaultOrder>>,
      <<1, 0, DefaultSortBy, DefaultOrder>>,
      <<DefaultLimit, 1, DefaultSortBy, DefaultOrder>>,
      <<DefaultLimit, 0, "price", DefaultOrder>>,
      <<DefaultLimit, 0, DefaultSortBy, "DESC">>,
      <<1, 1, "price", "DESC">> }

(***************************************************************************)
(* Request bodies: the fields of domain.Ad a client sets.                  *)
(***************************************************************************)
\* The first body leaves the field active out.
Payloads ==
    { [Title |-> "Bike", Description |-> "Used", Price |-> 50],
      [Title |-> "Bike", Description |-> "Used", Price |-> 40, Active |-> TRUE] }

\* A Go pointer or error that may be nil: <<>> is nil, <<x>> points to x.
Nil == <<>>
Some(x) == <<x>>
IsNil(o) == Len(o) = 0
Val(o) == o[1]

(***************************************************************************)
(* Errors.  An error is the chain fmt.Errorf("...: %w", err) builds, outer *)
(* message first; errors.Is walks the chain.                               *)
(***************************************************************************)
ErrNoRows     == <<"sql: no rows in result set">>
ErrBadConn    == <<"driver: bad connection">>
ErrInvalidID  == <<"invalid ad ID">>
ErrAdNotFound == <<"ad not found">>
RedisNil      == <<"redis: nil">>
RedisDown     == <<"redis: connection refused">>
ErrSyntax     == <<"invalid character">>
ErrAtoiSyntax == <<"strconv.Atoi: invalid syntax">>
ErrAtoiRange  == <<"strconv.Atoi: value out of range">>
ErrBadField   == <<"Error 1054: Unknown column">>
ErrDivide     == <<"runtime error: integer divide by zero">>

Wrap(msg, err) == <<msg>> \o err

ErrorsIs(err, target) == \E i \in 1..Len(err) : err[i] = target[1]

(***************************************************************************)
(* domain.Ad, its row in the table and its JSON text.                      *)
(***************************************************************************)
\* rows.Scan / QueryRow.Scan: a row of the table into a domain.Ad.
Scan(row) ==
    [ID |-> row.id, Title |-> row.title, Description |-> row.description,
     Price |-> row.price, CreatedAt |-> row.created_at,
     UpdatedAt |-> row.updated_at, Active |-> row.active]

\* json.Marshal of a domain.Ad: an object whose members are named by the
\* struct's json tags.
Marshal(ad) ==
    [kind |-> "object",
     members |-> [id |-> ad.ID, title |-> ad.Title,
                  description |-> ad.Description, price |-> ad.Price,
                  created_at |-> ad.CreatedAt, updated_at |-> ad.UpdatedAt,
                  active |-> ad.Active]]

\* json.Unmarshal into a domain.Ad: an object parses, the text null leaves
\* the zero value, anything else is an error.
Unmarshal(text) ==
    CASE text.kind = "object" ->
            [err |-> Nil,
             ad  |-> [ID |-> text.members.id, Title |-> text.members.title,
                      Description |-> text.members.description,
                      Price |-> text.members.price,
                      CreatedAt |-> text.members.created_at,
                      UpdatedAt |-> text.members.updated_at,
                      Active |-> text.members.active]]
      [] text.kind = "null" ->
            [err |-> Nil,
             ad  |-> [ID |-> 0, Title |-> "", Description |-> "", Price |-> 0,
                      CreatedAt |-> 0, UpdatedAt |-> 0, Active |-> FALSE]]
      [] OTHER -> [err |-> ErrSyntax, ad |-> [ID |-> 0]]

\* A text that is not JSON.
Garbled == [kind |-> "invalid"]

\* json.Marshal of a []*domain.Ad: a nil slice is the text null.
MarshalList(ads) ==
    IF Len(ads) = 0
    THEN [kind |-> "null"]
    ELSE [kind |-> "array", items |-> [i \in 1..Len(ads) |-> Marshal(ads[i])]]

\* json.Unmarshal into a []*domain.Ad.
UnmarshalList(text) ==
    CASE text.kind = "null"  -> [err |-> Nil, ads |-> <<>>]
      [] text.kind = "array" ->
            [err |-> Nil,
             ads |-> [i \in 1..Len(text.items) |-> Unmarshal(text.items[i]).ad]]
      [] OTHER               -> [err |-> ErrSyntax, ads |-> <<>>]

(***************************************************************************)
(* Cache keys.                                                             *)
(***************************************************************************)
\* fmt.Sprintf("ad:%d", id)
KeyAd(id) == <<"ad:", id>>
\* "ads:default_page"
KeyList == <<"ads:default_page", 0>>
Keys == {KeyAd(i) : i \in ReqIds} \cup {KeyList}


VARIABLES
    store,     \* the table ads: id -> its row, or Nil
    nextId,    \* the table's AUTO_INCREMENT counter
    now,       \* the store's CURRENT_TIMESTAMP, in seconds
    cache,     \* Redis: key -> [val, ttl], or Nil
    env,       \* what the surroundings may do in this execution
    pc,        \* per request: the call it is about to make
    req,       \* per request: the operation and its arguments
    loc,       \* per request: the handler's local variables
    calls,     \* per request: the store and cache calls made so far
    rres,      \* per request: what the repository returned
    sres,      \* per request: what the service returned
    hist       \* what has happened so far (history, read by no step)

vars == <<store, nextId, now, cache, env, pc, req, loc, calls, rres, sres, hist>>

NoReq    == [op |-> "none"]
\* w: the statuses written to the handler's http.ResponseWriter.
NoLoc    == [ad |-> Nil, ads |-> <<>>, count |-> 0, w |-> <<>>]
NoResult == [val |-> Nil, err |-> Nil, set |-> FALSE]
Result(val, err) == [val |-> val, err |-> err, set |-> TRUE]

(***************************************************************************)
(* The cache: RedisCache.Get, Set and Delete.  ok = FALSE is a call that   *)
(* fails (Redis unreachable).                                              *)
(***************************************************************************)
EmptyText == [kind |-> "empty"]

CacheGet(c, key, ok) ==
    IF ~ok THEN [val |-> EmptyText, err |-> RedisDown]
    ELSE IF IsNil(c[key]) THEN [val |-> EmptyText, err |-> RedisNil]
    ELSE [val |-> Val(c[key]).val, err |-> Nil]

\* A slip: the entry is written with no expiry.
CacheSet_NoExpiry(c, key, text, ttl, ok) ==
    IF ok THEN [c EXCEPT ![key] = Some([val |-> text, ttl |-> 0])] ELSE c

CacheSet(c, key, text, ttl, ok) ==
    IF ok THEN [c EXCEPT ![key] = Some([val |-> text, ttl |-> ttl])] ELSE c

CacheDelete(c, key, ok) ==
    IF ok THEN [c EXCEPT ![key] = Nil] ELSE c

CacheOutcomes == IF env.cacheFaults THEN BOOLEAN ELSE {TRUE}
DbOutcomes    == IF env.dbFaults THEN BOOLEAN ELSE {TRUE}

(***************************************************************************)
(* The store: the statements the repository sends to MySQL.                *)
(***************************************************************************)
\* SELECT ... FROM ads WHERE id = ?
SelectById(st, id) == IF id \in DOMAIN st THEN st[id] ELSE Nil

Rows(st) == {Val(st[i]) : i \in {j \in DOMAIN st : ~IsNil(st[j])}}

\* SELECT COUNT(*) FROM ads
CountRows(st) == Cardinality(Rows(st))

\* ORDER BY col dir: every order of the rows the sort allows (MySQL leaves
\* the order of rows with equal keys open).
InOrder(a, b, col, dir) ==
    IF dir = "DESC" THEN a[col] >= b[col] ELSE a[col] <= b[col]

Sorted(st, col, dir) ==
    LET R == Rows(st)
        n == Cardinality(R)
    IN  {s \in [1..n -> R] :
            /\ \A i, j \in 1..n : i # j => s[i] # s[j]
            /\ \A i, j \in 1..n : i < j => InOrder(s[i], s[j], col, dir)}

Min(a, b) == IF a <= b THEN a ELSE b

\* LIMIT ? OFFSET ?
Page(s, limit, offset) == SubSeq(s, offset + 1, Min(Len(s), offset + limit))

\* SELECT ... FROM ads ORDER BY %s %s LIMIT ? OFFSET ?
SelectPage(st, limit, offset, col, dir) ==
    {Page(s, limit, offset) : s \in Sorted(st, col, dir)}

\* INSERT INTO ads (title, description, price, active) VALUES (?, ?, ?, ?)
InsertRow(id, ad, t) ==
    [id |-> id, title |-> ad.Title, description |-> ad.Description,
     price |-> ad.Price, active |-> ad.Active, created_at |-> t,
     updated_at |-> t]

\* UPDATE ads SET title = ?, description = ?, price = ?, active = ?,
\*   updated_at = CURRENT_TIMESTAMP WHERE id = ?
UpdateRow(row, ad, t) ==
    [row EXCEPT !.title = ad.Title, !.description = ad.Description,
                !.price = ad.Price, !.active = ad.Active, !.updated_at = t]

\* result.RowsAffected() of the UPDATE.  The DSN does not set
\* clientFoundRows, so MySQL counts the rows the statement changed, not the
\* rows it matched.
UpdateRowsAffected(st, ad, t) ==
    IF IsNil(SelectById(st, ad.ID)) THEN 0
    ELSE IF UpdateRow(Val(st[ad.ID]), ad, t) = Val(st[ad.ID]) THEN 0 ELSE 1

\* result.RowsAffected() of DELETE FROM ads WHERE id = ?
DeleteRowsAffected(st, id) == IF IsNil(SelectById(st, id)) THEN 0 ELSE 1

(***************************************************************************)
(* What a call leaves in the request's call log.                           *)
(***************************************************************************)
CacheCall(name, key, ok) == [call |-> name, key |-> key, ok |-> ok]
DbCall(name, ok) == [call |-> name, key |-> <<"db", 0>>, ok |-> ok]

IsCacheCall(c) == c.call \in {"cache.Get", "cache.Set", "cache.Delete"}
IsDbCall(c) == ~IsCacheCall(c)


(***************************************************************************)
(* Requests.                                                               *)
(***************************************************************************)
ReqGet(id)     == [op |-> "GetAdByID", id |-> id]
ReqUpdate(ad)  == [op |-> "UpdateAd", id |-> ad.ID, ad |-> ad]
ReqDelete(id)  == [op |-> "DeleteAd", id |-> id]
ReqCreate(ad, body) == [op |-> "CreateAd", ad |-> ad, body |-> body]
ReqList(limit, offset, sortBy, order) ==
    [op |-> "GetAllAds", limit |-> limit, offset |-> offset,
     sortBy |-> sortBy, order |-> order]
\* The same request as the handler of GET /ads issues it for query string q.
ReqQuery(q, limit, offset, sortBy, order) ==
    [op |-> "GetAllAds", limit |-> limit, offset |-> offset,
     sortBy |-> sortBy, order |-> order, query |-> q]

\* The zero value domain.Ad{}.
ZeroAd ==
    [ID |-> 0, Title |-> "", Description |-> "", Price |-> 0, CreatedAt |-> 0,
     UpdatedAt |-> 0, Active |-> FALSE]

\* json.Decode leaves a field the body does not name at its zero value.
Field(body, name, zero) == IF name \in DOMAIN body THEN body[name] ELSE zero

\* The domain.Ad the router decodes from a request body; UpdateAd's handler
\* then sets its ID from the path.
AdOf(id, body) ==
    [ZeroAd EXCEPT !.ID = id, !.Title = Field(body, "Title", ""),
                   !.Description = Field(body, "Description", ""),
                   !.Price = Field(body, "Price", 0),
                   !.Active = Field(body, "Active", FALSE)]

\* The ids whose row or cache entry an in-flight request works on: CreateAd
\* may be given any id, GetAllAds reads every row.
Touches(q) ==
    CASE req[q].op \in {"GetAdByID", "UpdateAd", "DeleteAd"} -> {req[q].id}
      [] req[q].op \in {"CreateAd", "GetAllAds"} -> Ids
      [] OTHER -> {}

\* env.overlap = FALSE: requests on the same id are issued one after another.
StartOK(p, ids) ==
    \/ env.overlap
    \/ \A q \in Procs \ {p} : Touches(q) \cap ids = {}

(***************************************************************************)
(* AdService: the checks and translations around the repository call.      *)
(***************************************************************************)
\* A slip: only negative ids are rejected.
ValidID_NonNegative(id) == id >= 0

\* if id <= 0 { return nil, ErrInvalidID }
ValidID(id) == id > 0

\* A slip: err == sql.ErrNoRows in place of errors.Is.
SvcError_ExactMatch(err) == IF err = ErrNoRows THEN ErrAdNotFound ELSE err

\* if errors.Is(err, sql.ErrNoRows) { return nil, ErrAdNotFound }; return nil, err
SvcError(err) == IF ErrorsIs(err, ErrNoRows) THEN ErrAdNotFound ELSE err

\* What GetAdByID, UpdateAd and DeleteAd of the service return for the
\* repository's result r; CreateAd returns the repository's error as it is.
SvcResult(op, r) ==
    IF IsNil(r.err) THEN r
    ELSE IF op = "CreateAd" THEN Result(Nil, r.err)
    ELSE Result(Nil, SvcError(r.err))

\* The outcome label a repository method has in its status variable when it
\* returns err, which the deferred QueryCount...Inc() records: "not_found" is
\* set only where UpdateAd and DeleteAd see zero affected rows; GetAdByID
\* sets "error" for every error of its query, sql.ErrNoRows included.
RepoStatus(op, err) ==
    IF IsNil(err) THEN "success"
    ELSE IF op \in {"UpdateAd", "DeleteAd"} /\ err = ErrNoRows THEN "not_found"
    ELSE "error"

\* The labels the repository method of request r has recorded once it has
\* returned rr.
RepoMetrics(r, rr) == IF rr.set THEN <<RepoStatus(r.op, rr.err)>> ELSE <<>>

\* The outcome label of a service method for the repository's error err.
SvcStatus(op, err) ==
    IF IsNil(err) THEN "success"
    ELSE IF op # "CreateAd" /\ ErrorsIs(err, ErrNoRows) THEN "not_found"
    ELSE "error"

\* The labels the service method of request r has recorded once it has
\* returned: GetAdByID, UpdateAd and DeleteAd return ErrInvalidID before
\* their deferred MethodCount...Inc() is set up.
SvcMetrics(r, rr) ==
    IF r.op \in {"GetAdByID", "UpdateAd", "DeleteAd"} /\ ~ValidID(r.id)
    THEN <<>>
    ELSE <<SvcStatus(r.op, rr.err)>>

\* Arithmetic of Go's int: sums wrap around, the quotient is truncated
\* towards zero.
MaxInt == 2^(IntBits - 1) - 1
MinInt == 0 - MaxInt - 1
WrapInt(n) == ((n - MinInt) % 2^IntBits) + MinInt
Abs(n) == IF n < 0 THEN 0 - n ELSE n
GoDiv(a, b) ==
    LET q == Abs(a) \div Abs(b)
    IN  IF (a < 0) # (b < 0) THEN WrapInt(0 - q) ELSE WrapInt(q)

\* totalPages, currentPage, nextPage and prevPage of service GetAllAds.
TotalPages(totalCount, limit) == GoDiv(WrapInt(totalCount + limit - 1), limit)
CurrentPage(offset, limit) == WrapInt(GoDiv(offset, limit) + 1)

Pagination(ads, totalCount, limit, offset) ==
    LET totalPages  == TotalPages(totalCount, limit)
        currentPage == CurrentPage(offset, limit)
    IN  [Ads |-> ads,
         CurrentPage |-> currentPage,
         NextPage |-> IF currentPage < totalPages
                      THEN WrapInt(currentPage + 1) ELSE 0,
         PrevPage |-> IF currentPage > 1 THEN currentPage - 1 ELSE 0,
         TotalPages |-> totalPages]

(***************************************************************************)
(* AdHandler.GetAllAds: the query string and what the handler makes of it. *)
(***************************************************************************)
Digits == <<"0", "1", "2", "3", "4", "5", "6", "7", "8", "9">>
IsDigit(c) == \E i \in 1..Len(Digits) : Digits[i] = c
DigitVal(c) == (CHOOSE i \in 1..Len(Digits) : Digits[i] = c) - 1

RECURSIVE DecValue(_)
DecValue(s) ==
    IF s = <<>> THEN 0
    ELSE 10 * DecValue(SubSeq(s, 1, Len(s) - 1)) + DigitVal(s[Len(s)])

\* strconv.Atoi: an optional sign, then one or more decimal digits; a value
\* the int does not hold is an error.
Atoi(s) ==
    LET signed == s # <<>> /\ s[1] \in {"+", "-"}
        body   == IF signed THEN Tail(s) ELSE s
        neg    == signed /\ s[1] = "-"
    IN  IF body = <<>> \/ \E i \in 1..Len(body) : ~IsDigit(body[i])
        THEN [n |-> 0, err |-> ErrAtoiSyntax]
        ELSE IF neg
        THEN IF DecValue(body) > MaxInt + 1
             THEN [n |-> MinInt, err |-> ErrAtoiRange]
             ELSE [n |-> 0 - DecValue(body), err |-> Nil]
        ELSE IF DecValue(body) > MaxInt
             THEN [n |-> MaxInt, err |-> ErrAtoiRange]
             ELSE [n |-> DecValue(body), err |-> Nil]

\* A slip: only a negative limit is replaced.
LimitOf_ZeroPasses(text) ==
    IF ~IsNil(Atoi(text).err) \/ Atoi(text).n < 0
    THEN DefaultLimit ELSE Atoi(text).n

\* limit, err := strconv.Atoi(query.Get("limit"))
\* if err != nil || limit <= 0 { limit = 10 }
LimitOf(text) ==
    IF ~IsNil(Atoi(text).err) \/ Atoi(text).n <= 0
    THEN DefaultLimit ELSE Atoi(text).n

\* page, err := strconv.Atoi(query.Get("page"))
\* if err != nil || page <= 0 { page = 1 }
PageOf(text) ==
    IF ~IsNil(Atoi(text).err) \/ Atoi(text).n <= 0 THEN 1 ELSE Atoi(text).n

\* offset := (page - 1) * limit
OffsetOf(page, limit) == WrapInt((page - 1) * limit)

\* if sortBy == "" { sortBy = "created_at" }
SortByOf(text) == IF text = "" THEN DefaultSortBy ELSE text
\* if order == "" { order = "ASC" }
OrderOf(text) == IF text = "" THEN DefaultOrder ELSE text

\* The query strings of GET /ads: query.Get gives "" for a parameter that
\* is absent.
Alphabet == {"0", "1", "-", "a"}
RECURSIVE Texts(_)
Texts(n) ==
    IF n = 0 THEN {<<>>}
    ELSE Texts(n - 1) \cup {Append(t, c) : t \in Texts(n - 1), c \in Alphabet}
SortTexts  == {"", "price", "active", "bogus"}
OrderTexts == {"", "DESC", "sideways"}
Queries ==
    [limit : Texts(MaxText), page : Texts(MaxText),
     sortBy : SortTexts, order : OrderTexts]

\* The columns of the table ads, and the ORDER BY clauses MySQL accepts of
\* those the requests carry.
TableColumns ==
    {"id", "title", "description", "price", "active", "created_at", "updated_at"}
QueryValid(sortBy, order) == sortBy \in TableColumns /\ order \in {"ASC", "DESC"}

(***************************************************************************)
(* mysqlAdRepository: the decisions between its calls.                     *)
(***************************************************************************)
\* A slip: the sort direction is left out of the test.
IsDefaultPagination_AnyOrder(limit, offset, sortBy, order) ==
    /\ limit = DefaultLimit
    /\ offset = 0
    /\ sortBy = DefaultSortBy

\* limit == 10 && offset == 0 && sortBy == "created_at" && order == "ASC"
IsDefaultPagination(limit, offset, sortBy, order) ==
    /\ limit = DefaultLimit
    /\ offset = 0
    /\ sortBy = DefaultSortBy
    /\ order = DefaultOrder

\* A slip: the cached value is never used.
AdCacheHit_Never(got) == FALSE

\* A slip: whatever cache.Get returns without an error is used.
AdCacheHit_Unparsed(got) == IsNil(got.err)

\* GetAdByID: err == nil of cache.Get and err == nil of json.Unmarshal
AdCacheHit(got) == IsNil(got.err) /\ IsNil(Unmarshal(got.val).err)

\* A slip: the cached list is never used.
ListCacheHit_Never(got) == FALSE

\* GetAllAds: the same two tests on the cached list
ListCacheHit(got) == IsNil(got.err) /\ IsNil(UnmarshalList(got.val).err)

\* A slip: a missing row scans as the zero value, without an error.
QueryRowScan_ZeroOnMiss(st, id, ok) ==
    IF ~ok THEN [ad |-> ZeroAd, err |-> ErrBadConn]
    ELSE IF IsNil(SelectById(st, id)) THEN [ad |-> ZeroAd, err |-> Nil]
    ELSE [ad |-> Scan(Val(SelectById(st, id))), err |-> Nil]

\* db.QueryRowContext(ctx, "SELECT ... WHERE id = ?", id).Scan(&ad...)
QueryRowScan(st, id, ok) ==
    IF ~ok THEN [ad |-> ZeroAd, err |-> ErrBadConn]
    ELSE IF IsNil(SelectById(st, id)) THEN [ad |-> ZeroAd, err |-> ErrNoRows]
    ELSE [ad |-> Scan(Val(SelectById(st, id))), err |-> Nil]

\* A slip: the UPDATE without its WHERE clause.
ApplyUpdate_NoWhere(st, ad, t) ==
    [i \in DOMAIN st |->
        IF IsNil(st[i]) THEN Nil ELSE Some(UpdateRow(Val(st[i]), ad, t))]

\* The table after the UPDATE: a statement that matches no row changes none.
ApplyUpdate(st, ad, t) ==
    IF IsNil(SelectById(st, ad.ID)) THEN st
    ELSE [st EXCEPT ![ad.ID] = Some(UpdateRow(Val(@), ad, t))]

\* The table after the DELETE.
ApplyDelete(st, id) ==
    IF IsNil(SelectById(st, id)) THEN st ELSE [st EXCEPT ![id] = Nil]

\* A slip: the count of affected rows is never taken as zero.
NoRowsAffected_Never(rowsAffected) == rowsAffected < 0

\* if rowsAffected == 0 { return sql.ErrNoRows }
NoRowsAffected(rowsAffected) == rowsAffected = 0

(***************************************************************************)
(* Steps of a request.                                                     *)
(***************************************************************************)
Goto(p, label) == pc' = [pc EXCEPT ![p] = label]
Log(p, c) == calls' = [calls EXCEPT ![p] = Append(@, c)]
SetLoc(p, l) == loc' = [loc EXCEPT ![p] = l]
RepoReturn(p, r) == rres' = [rres EXCEPT ![p] = r]
SvcReturn(p, r) ==
    /\ sres' = [sres EXCEPT ![p] = r]
    /\ Goto(p, "done")

\* The repository returns r and the service hands it on to its caller.
Finish(p, r) ==
    /\ RepoReturn(p, r)
    /\ SvcReturn(p, SvcResult(req[p].op, r))

\* History: the rows the table has held for an id.  They are recorded only
\* where env says so, in the specifications whose properties read them.
Holds(h, id, row) ==
    IF "history" \in DOMAIN env THEN [h EXCEPT !.held[id] = @ \cup {row}] ELSE h

\* History: the row and the entry of id when request p is issued, recorded
\* where env says so.
Snapshot(h, p, id) ==
    IF "snapshots" \in DOMAIN env
    THEN [h EXCEPT !.before[p] =
             Some([row |-> SelectById(store, id),
                   entry |-> IF KeyAd(id) \in DOMAIN cache
                             THEN cache[KeyAd(id)] ELSE Nil])]
    ELSE h

\* History: which request wrote the entry a key holds now.
Wrote(key, by, ok) ==
    IF ok THEN [hist EXCEPT !.writer[key] = by] ELSE hist

InitState ==
    /\ store = [i \in Ids |-> Nil]
    /\ nextId = 1
    /\ now = 1
    /\ cache = [k \in Keys |-> Nil]
    /\ pc = [p \in Procs |-> "idle"]
    /\ req = [p \in Procs |-> NoReq]
    /\ loc = [p \in Procs |-> NoLoc]
    /\ calls = [p \in Procs |-> <<>>]
    /\ rres = [p \in Procs |-> NoResult]
    /\ sres = [p \in Procs |-> NoResult]
    /\ hist = [deleted |-> {},
               held |-> [i \in Ids |-> {}],
               before |-> [p \in Procs |-> Nil],
               created |-> [i \in Ids |-> Nil],
               lastUpdate |-> [i \in Ids |-> Nil],
               writer |-> [k \in Keys |-> "none"]]

----------------------------------------------------------------------------
(* adService.GetAdByID and mysqlAdRepository.GetAdByID *)

SvcGetAdByID(p, id) ==
    /\ pc[p] = "idle"
    /\ StartOK(p, {id})
    /\ req' = [req EXCEPT ![p] = ReqGet(id)]
    /\ IF ValidID(id)
       THEN Goto(p, "get_cache") /\ UNCHANGED sres
       ELSE SvcReturn(p, Result(Nil, ErrInvalidID))
    /\ UNCHANGED <<store, nextId, now, cache, env, loc, calls, rres, hist>>

\* A slip: an error of cache.Get other than a miss is returned to the caller.
GetCacheGet_ReturnsCacheError(p) ==
    /\ pc[p] = "get_cache"
    /\ \E ok \in CacheOutcomes :
         LET key == KeyAd(req[p].id)
             got == CacheGet(cache, key, ok)
         IN  /\ Log(p, CacheCall("cache.Get", key, ok))
             /\ IF AdCacheHit(got)
                THEN Finish(p, Result(Some(Unmarshal(got.val).ad), Nil))
                ELSE IF got.err = RedisDown
                THEN Finish(p, Result(Nil, Wrap("failed to read cache", got.err)))
                ELSE Goto(p, "get_query") /\ UNCHANGED <<rres, sres>>
    /\ UNCHANGED <<store, nextId, now, cache, env, req, loc, hist>>

\* A slip: a call that misses while another call for the same id holds the
\* row it has just read takes that row in place of asking the store.
GetCacheGet_SharesFlight(p) ==
    /\ pc[p] = "get_cache"
    /\ \E ok \in CacheOutcomes :
         LET key == KeyAd(req[p].id)
             got == CacheGet(cache, key, ok)
             flights == {q \in Procs \ {p} :
                            pc[q] = "get_set" /\ req[q].id = req[p].id}
         IN  /\ Log(p, CacheCall("cache.Get", key, ok))
             /\ IF AdCacheHit(got)
                THEN Finish(p, Result(Some(Unmarshal(got.val).ad), Nil))
                ELSE IF flights # {}
                THEN \E q \in flights : Finish(p, Result(loc[q].ad, Nil))
                ELSE Goto(p, "get_query") /\ UNCHANGED <<rres, sres>>
    /\ UNCHANGED <<store, nextId, now, cache, env, req, loc, hist>>

GetCacheGet(p) ==
    /\ pc[p] = "get_cache"
    /\ \E ok \in CacheOutcomes :
         LET key == KeyAd(req[p].id)
             got == CacheGet(cache, key, ok)
         IN  /\ Log(p, CacheCall("cache.Get", key, ok))
             /\ IF AdCacheHit(got)
                THEN Finish(p, Result(Some(Unmarshal(got.val).ad), Nil))
                ELSE Goto(p, "get_query") /\ UNCHANGED <<rres, sres>>
    /\ UNCHANGED <<store, nextId, now, cache, env, req, loc, hist>>

GetQuery(p) ==
    /\ pc[p] = "get_query"
    /\ \E ok \in DbOutcomes :
         LET got == QueryRowScan(store, req[p].id, ok)
         IN  /\ Log(p, DbCall("db.QueryRow", ok))
             /\ IF ~IsNil(got.err)
                THEN Finish(p, Result(Nil, got.err)) /\ UNCHANGED loc
                ELSE /\ SetLoc(p, [loc[p] EXCEPT !.ad = Some(got.ad)])
                     /\ Goto(p, "get_set")
                     /\ UNCHANGED <<rres, sres>>
    /\ UNCHANGED <<store, nextId, now, cache, env, req, hist>>

\* A slip: the ad is cached under the key of the id before it.
GetCacheSet_OtherKey(p) ==
    /\ pc[p] = "get_set"
    /\ \E ok \in CacheOutcomes :
         LET key == KeyAd(req[p].id - 1)
         IN  /\ Log(p, CacheCall("cache.Set", key, ok))
             /\ cache' = CacheSet(cache, key, Marshal(Val(loc[p].ad)),
                                  TTLMinutes, ok)
             /\ hist' = Wrote(key, "GetAdByID", ok)
    /\ Finish(p, Result(loc[p].ad, Nil))
    /\ UNCHANGED <<store, nextId, now, env, req, loc>>

GetCacheSet(p) ==
    /\ pc[p] = "get_set"
    /\ \E ok \in CacheOutcomes :
         LET key == KeyAd(req[p].id)
         IN  /\ Log(p, CacheCall("cache.Set", key, ok))
             /\ cache' = CacheSet(cache, key, Marshal(Val(loc[p].ad)),
                                  TTLMinutes, ok)
             /\ hist' = Wrote(key, "GetAdByID", ok)
    /\ Finish(p, Result(loc[p].ad, Nil))
    /\ UNCHANGED <<store, nextId, now, env, req, loc>>

----------------------------------------------------------------------------
(* adService.UpdateAd and mysqlAdRepository.UpdateAd *)

SvcUpdateAd(p, id, body) ==
    /\ pc[p] = "idle"
    /\ StartOK(p, {id})
    /\ req' = [req EXCEPT ![p] = ReqUpdate(AdOf(id, body))]
    /\ IF ValidID(id)
       THEN Goto(p, "upd_exec") /\ UNCHANGED sres
       ELSE SvcReturn(p, Result(Nil, ErrInvalidID))
    /\ hist' = Snapshot(hist, p, id)
    /\ UNCHANGED <<store, nextId, now, cache, env, loc, calls, rres>>

\* A slip: UpdateAd returns after the UPDATE, leaving the cache as it is.
UpdExec_NoInvalidate(p) ==
    /\ pc[p] = "upd_exec"
    /\ \E ok \in DbOutcomes :
         LET ad == req[p].ad
         IN  /\ Log(p, DbCall("db.Exec", ok))
             /\ IF ~ok
                THEN /\ Finish(p, Result(Nil, Wrap("failed to update ad", ErrBadConn)))
                     /\ UNCHANGED <<store, hist>>
                ELSE /\ store' = ApplyUpdate(store, ad, now)
                     /\ IF NoRowsAffected(UpdateRowsAffected(store, ad, now))
                        THEN Finish(p, Result(Nil, ErrNoRows)) /\ UNCHANGED hist
                        ELSE /\ Finish(p, Result(Some(ad), Nil))
                             /\ hist' = Holds([hist EXCEPT !.lastUpdate[ad.ID] = Some(ad),
                                                              !.created[ad.ID] = Nil],
                                               ad.ID, Val(store'[ad.ID]))
    /\ UNCHANGED <<nextId, now, cache, env, req, loc>>

UpdExec(p) ==
    /\ pc[p] = "upd_exec"
    /\ \E ok \in DbOutcomes :
         LET ad == req[p].ad
         IN  /\ Log(p, DbCall("db.Exec", ok))
             /\ IF ~ok
                THEN /\ Finish(p, Result(Nil, Wrap("failed to update ad", ErrBadConn)))
                     /\ UNCHANGED <<store, hist>>
                ELSE /\ store' = ApplyUpdate(store, ad, now)
                     /\ hist' = IF store' # store
                                THEN Holds([hist EXCEPT !.lastUpdate[ad.ID] = Nil,
                                                        !.created[ad.ID] = Nil],
                                           ad.ID, Val(store'[ad.ID]))
                                ELSE hist
                     /\ IF NoRowsAffected(UpdateRowsAffected(store, ad, now))
                        THEN Finish(p, Result(Nil, ErrNoRows))
                        ELSE Goto(p, "upd_del") /\ UNCHANGED <<rres, sres>>
    /\ UNCHANGED <<nextId, now, cache, env, req, loc>>

UpdCacheDelete(p) ==
    /\ pc[p] = "upd_del"
    /\ \E ok \in CacheOutcomes :
         LET key == KeyAd(req[p].id)
         IN  /\ Log(p, CacheCall("cache.Delete", key, ok))
             /\ cache' = CacheDelete(cache, key, ok)
             /\ hist' = Wrote(key, "none", ok)
    /\ Goto(p, "upd_reread")
    /\ UNCHANGED <<store, nextId, now, env, req, loc, rres, sres>>

UpdReread(p) ==
    /\ pc[p] = "upd_reread"
    /\ \E ok \in DbOutcomes :
         LET got == QueryRowScan(store, req[p].id, ok)
         IN  /\ Log(p, DbCall("db.QueryRow", ok))
             /\ IF ~IsNil(got.err)
                THEN /\ Finish(p, Result(Nil, Wrap("failed to fetch updated ad", got.err)))
                     /\ UNCHANGED loc
                ELSE /\ SetLoc(p, [loc[p] EXCEPT !.ad = Some(got.ad)])
                     /\ Goto(p, "upd_set")
                     /\ UNCHANGED <<rres, sres>>
    /\ UNCHANGED <<store, nextId, now, cache, env, req, hist>>

\* A slip: the request's ad is cached and returned in place of the row.
UpdCacheSet_CachesPayload(p) ==
    /\ pc[p] = "upd_set"
    /\ \E ok \in CacheOutcomes :
         LET key == KeyAd(req[p].id)
         IN  /\ Log(p, CacheCall("cache.Set", key, ok))
             /\ cache' = CacheSet(cache, key, Marshal(req[p].ad), TTLMinutes, ok)
             /\ hist' = [Wrote(key, "UpdateAd", ok)
                           EXCEPT !.lastUpdate[req[p].id] = Some(req[p].ad)]
    /\ Finish(p, Result(Some(req[p].ad), Nil))
    /\ UNCHANGED <<store, nextId, now, env, req, loc>>

UpdCacheSet(p) ==
    /\ pc[p] = "upd_set"
    /\ \E ok \in CacheOutcomes :
         LET key == KeyAd(req[p].id)
         IN  /\ Log(p, CacheCall("cache.Set", key, ok))
             /\ cache' = CacheSet(cache, key, Marshal(Val(loc[p].ad)),
                                  TTLMinutes, ok)
             /\ hist' = [Wrote(key, "UpdateAd", ok)
                           EXCEPT !.lastUpdate[req[p].id] = Some(req[p].ad)]
    /\ Finish(p, Result(loc[p].ad, Nil))
    /\ UNCHANGED <<store, nextId, now, env, req, loc>>

----------------------------------------------------------------------------
(* adService.DeleteAd and mysqlAdRepository.DeleteAd *)

SvcDeleteAd(p, id) ==
    /\ pc[p] = "idle"
    /\ StartOK(p, {id})
    /\ req' = [req EXCEPT ![p] = ReqDelete(id)]
    /\ IF ValidID(id)
       THEN Goto(p, "del_exec") /\ UNCHANGED sres
       ELSE SvcReturn(p, Result(Nil, ErrInvalidID))
    /\ UNCHANGED <<store, nextId, now, cache, env, loc, calls, rres, hist>>

DelExec(p) ==
    /\ pc[p] = "del_exec"
    /\ \E ok \in DbOutcomes :
         LET id == req[p].id
         IN  /\ Log(p, DbCall("db.Exec", ok))
             /\ IF ~ok
                THEN /\ Finish(p, Result(Nil, Wrap("failed to delete ad", ErrBadConn)))
                     /\ UNCHANGED <<store, hist>>
                ELSE /\ store' = ApplyDelete(store, id)
                     /\ hist' = IF store' # store
                                THEN [hist EXCEPT !.lastUpdate[id] = Nil,
                                                  !.created[id] = Nil]
                                ELSE hist
                     /\ IF NoRowsAffected(DeleteRowsAffected(store, id))
                        THEN Finish(p, Result(Nil, ErrNoRows))
                        ELSE Goto(p, "del_del") /\ UNCHANGED <<rres, sres>>
    /\ UNCHANGED <<nextId, now, cache, env, req, loc>>

\* A slip: DeleteAd returns after the DELETE, leaving the cache as it is.
DelCacheDelete_LeavesEntry(p) ==
    /\ pc[p] = "del_del"
    /\ Log(p, CacheCall("cache.Delete", KeyAd(req[p].id), TRUE))
    /\ Finish(p, Result(Nil, Nil))
    /\ UNCHANGED <<store, nextId, now, cache, env, req, loc, hist>>

DelCacheDelete(p) ==
    /\ pc[p] = "del_del"
    /\ \E ok \in CacheOutcomes :
         LET key == KeyAd(req[p].id)
         IN  /\ Log(p, CacheCall("cache.Delete", key, ok))
             /\ cache' = CacheDelete(cache, key, ok)
             /\ hist' = Wrote(key, "none", ok)
    /\ Finish(p, Result(Nil, Nil))
    /\ UNCHANGED <<store, nextId, now, env, req, loc>>

----------------------------------------------------------------------------
(* adService.CreateAd and mysqlAdRepository.CreateAd *)

SvcCreateAd(p, body) ==
    /\ pc[p] = "idle"
    /\ nextId <= MaxId
    /\ StartOK(p, Ids)
    /\ req' = [req EXCEPT ![p] = ReqCreate(AdOf(0, body), body)]
    /\ Goto(p, "cre_insert")
    /\ UNCHANGED <<store, nextId, now, cache, env, loc, calls, rres, sres, hist>>

CreInsert(p) ==
    /\ pc[p] = "cre_insert"
    /\ \E ok \in DbOutcomes :
         /\ Log(p, DbCall("db.Exec", ok))
         /\ IF ~ok \/ nextId > MaxId
            THEN /\ Finish(p, Result(Nil, Wrap("failed to insert ad", ErrBadConn)))
                 /\ UNCHANGED <<store, nextId, loc, hist>>
            ELSE /\ store' = [store EXCEPT ![nextId] =
                                 Some(InsertRow(nextId, req[p].ad, now))]
                 /\ hist' = Holds(hist, nextId, InsertRow(nextId, req[p].ad, now))
                 /\ nextId' = nextId + 1
                 \* id, err := result.LastInsertId()
                 /\ SetLoc(p, [loc[p] EXCEPT !.ad = Some([ZeroAd EXCEPT !.ID = nextId])])
                 /\ Goto(p, "cre_reread")
                 /\ UNCHANGED <<rres, sres>>
    /\ UNCHANGED <<now, cache, env, req>>

\* A slip: CreateAd drops the cached default page once the row is in.
CreReread_InvalidatesList(p) ==
    /\ pc[p] = "cre_reread"
    /\ \E ok \in DbOutcomes :
         LET got == QueryRowScan(store, Val(loc[p].ad).ID, ok)
         IN  /\ Log(p, DbCall("db.QueryRow", ok))
             /\ IF ~IsNil(got.err)
                THEN Finish(p, Result(Nil, Wrap("failed to fetch inserted ad", got.err)))
                ELSE Finish(p, Result(Some(got.ad), Nil))
    /\ cache' = CacheDelete(cache, KeyList, TRUE)
    /\ UNCHANGED <<store, nextId, now, env, req, loc, hist>>

CreReread(p) ==
    /\ pc[p] = "cre_reread"
    /\ \E ok \in DbOutcomes :
         LET got == QueryRowScan(store, Val(loc[p].ad).ID, ok)
         IN  /\ Log(p, DbCall("db.QueryRow", ok))
             /\ IF ~IsNil(got.err)
                THEN /\ Finish(p, Result(Nil, Wrap("failed to fetch inserted ad", got.err)))
                     /\ UNCHANGED hist
                ELSE /\ Finish(p, Result(Some(got.ad), Nil))
                     /\ hist' = [hist EXCEPT !.created[got.ad.ID] = Some(got.ad)]
    /\ UNCHANGED <<store, nextId, now, cache, env, req, loc>>

----------------------------------------------------------------------------
(* adService.GetAllAds, mysqlAdRepository.GetAllAds and CountAds *)

SvcGetAllAds(p, limit, offset, sortBy, order) ==
    /\ pc[p] = "idle"
    /\ StartOK(p, Ids)
    /\ req' = [req EXCEPT ![p] = ReqList(limit, offset, sortBy, order)]
    /\ IF IsDefaultPagination(limit, offset, sortBy, order)
       THEN Goto(p, "list_cache")
       ELSE Goto(p, "list_query")
    /\ UNCHANGED <<store, nextId, now, cache, env, loc, calls, rres, sres, hist>>

\* AdHandler.GetAllAds for the query string q, up to its call of the
\* service, and the service's call of the repository.
HandleGetAllAds(p, q) ==
    /\ pc[p] = "idle"
    /\ StartOK(p, Ids)
    /\ LET limit  == LimitOf(q.limit)
           offset == OffsetOf(PageOf(q.page), limit)
           sortBy == SortByOf(q.sortBy)
           order  == OrderOf(q.order)
       IN  /\ req' = [req EXCEPT ![p] = ReqQuery(q, limit, offset, sortBy, order)]
           /\ IF IsDefaultPagination(limit, offset, sortBy, order)
              THEN Goto(p, "list_cache")
              ELSE Goto(p, "list_query")
    /\ UNCHANGED <<store, nextId, now, cache, env, loc, calls, rres, sres, hist>>

ListCacheGet(p) ==
    /\ pc[p] = "list_cache"
    /\ \E ok \in CacheOutcomes :
         LET got == CacheGet(cache, KeyList, ok)
         IN  /\ Log(p, CacheCall("cache.Get", KeyList, ok))
             /\ IF ListCacheHit(got)
                THEN /\ RepoReturn(p, Result(Some(UnmarshalList(got.val).ads), Nil))
                     /\ Goto(p, "list_count")
                ELSE /\ Goto(p, "list_query")
                     /\ UNCHANGED rres
    /\ UNCHANGED <<store, nextId, now, cache, env, req, loc, sres, hist>>

ListQuery(p) ==
    /\ pc[p] = "list_query"
    /\ \E ok \in DbOutcomes :
         LET r == req[p]
         IN  /\ Log(p, DbCall("db.Query", ok))
             /\ IF ~ok \/ ~QueryValid(r.sortBy, r.order)
                THEN LET err == IF ok THEN ErrBadField ELSE ErrBadConn
                     IN  /\ RepoReturn(p, Result(Nil, Wrap("failed to retrieve ads", err)))
                         /\ SvcReturn(p, Result(Nil, Wrap("failed to retrieve ads", err)))
                         /\ UNCHANGED loc
                ELSE \E rows \in SelectPage(store, r.limit, r.offset, r.sortBy, r.order) :
                       LET ads == [i \in 1..Len(rows) |-> Scan(rows[i])]
                       IN  /\ SetLoc(p, [loc[p] EXCEPT !.ads = ads])
                           /\ IF IsDefaultPagination(r.limit, r.offset, r.sortBy, r.order)
                              THEN /\ Goto(p, "list_set")
                                   /\ UNCHANGED rres
                              ELSE /\ RepoReturn(p, Result(Some(ads), Nil))
                                   /\ Goto(p, "list_count")
                           /\ UNCHANGED sres
    /\ UNCHANGED <<store, nextId, now, cache, env, req, hist>>

ListCacheSet(p) ==
    /\ pc[p] = "list_set"
    /\ \E ok \in CacheOutcomes :
         /\ Log(p, CacheCall("cache.Set", KeyList, ok))
         /\ cache' = CacheSet(cache, KeyList, MarshalList(loc[p].ads),
                              TTLMinutes, ok)
         /\ hist' = Wrote(KeyList, "GetAllAds", ok)
    /\ RepoReturn(p, Result(Some(loc[p].ads), Nil))
    /\ Goto(p, "list_count")
    /\ UNCHANGED <<store, nextId, now, env, req, loc, sres>>

ListCount(p) ==
    /\ pc[p] = "list_count"
    /\ \E ok \in DbOutcomes :
         /\ Log(p, DbCall("db.QueryRow", ok))
         /\ IF ~ok
            THEN /\ SvcReturn(p, Result(Nil, Wrap("failed to count ads", ErrBadConn)))
                 /\ UNCHANGED loc
            ELSE IF req[p].limit = 0
            THEN \* totalPages := (totalCount + limit - 1) / limit panics
                 /\ SvcReturn(p, Result(Nil, ErrDivide))
                 /\ UNCHANGED loc
            ELSE /\ SetLoc(p, [loc[p] EXCEPT !.count = CountRows(store)])
                 /\ SvcReturn(p, Result(Some(Pagination(Val(rres[p].val),
                                                        CountRows(store),
                                                        req[p].limit,
                                                        req[p].offset)), Nil))
    /\ UNCHANGED <<store, nextId, now, cache, env, req, rres, hist>>

\* The arithmetic of service GetAllAds on its own: the repository has
\* returned a page and CountAds has returned totalCount, any number of rows
\* the table may hold.
Paginate(p, totalCount, limit, offset) ==
    /\ pc[p] = "idle"
    /\ req' = [req EXCEPT ![p] = ReqList(limit, offset, DefaultSortBy, DefaultOrder)]
    /\ SetLoc(p, [loc[p] EXCEPT !.count = totalCount])
    /\ RepoReturn(p, Result(Some(<<>>), Nil))
    /\ SvcReturn(p, Result(Some(Pagination(<<>>, totalCount, limit, offset)), Nil))
    /\ UNCHANGED <<store, nextId, now, cache, env, calls, hist>>

----------------------------------------------------------------------------
(* The surroundings *)

----------------------------------------------------------------------------
(* AdHandler.GetAdByID, AdHandler.UpdateAd and AdHandler.DeleteAd: the      *)
(* handlers of /ads/{id}, from the path parameter to the response.          *)

\* strconv.ParseInt(idParam, 10, 64): the texts strconv.Atoi takes.
ParseInt(s) == Atoi(s)

\* if idParam == "" {...}; if err != nil || id <= 0 {...}
BadID(idParam) ==
    \/ idParam = <<>>
    \/ ~IsNil(ParseInt(idParam).err)
    \/ ParseInt(idParam).n <= 0

\* A request body that is not JSON.
Malformed == [Syntax |-> "unexpected end of JSON input"]
Bodies == Payloads \cup {Malformed}

\* json.NewDecoder(r.Body).Decode(&adRequest)
Decode(body) ==
    IF "Syntax" \in DOMAIN body
    THEN [ad |-> ZeroAd, err |-> ErrSyntax]
    ELSE [ad |-> AdOf(0, body), err |-> Nil]

\* The path parameters tried: every text whose number, if it has one, is an
\* id a caller of the service may pass.
IdTexts == {t \in Texts(MaxText) : Atoi(t).n \in ReqIds}

\* The requests as the handlers of /ads/{id} issue them for path parameter
\* idParam.
ReqGetPath(idParam, id) == [op |-> "GetAdByID", id |-> id, path |-> idParam]
ReqUpdatePath(idParam, body, ad) ==
    [op |-> "UpdateAd", id |-> ad.ID, ad |-> ad, path |-> idParam, body |-> body]
ReqDeletePath(idParam, id) == [op |-> "DeleteAd", id |-> id, path |-> idParam]

\* A request that came in through a handler of /ads/{id}.
ByPath(r) == "path" \in DOMAIN r

\* utils.RespondWithJSON / utils.RespondWithErrorJSON with this status.
WriteStatus(p, status) == SetLoc(p, [loc[p] EXCEPT !.w = Append(@, status)])

\* The handler answers 400 before it calls the service.
Reject(p, r) ==
    /\ req' = [req EXCEPT ![p] = r]
    /\ WriteStatus(p, StatusBadRequest)
    /\ Goto(p, "responded")
    /\ UNCHANGED sres

\* h.service.GetAdByID / UpdateAd / DeleteAd: the id check of the service,
\* then the repository call that starts at label first.
CallService(p, r, first) ==
    /\ req' = [req EXCEPT ![p] = r]
    /\ IF ValidID(r.id)
       THEN Goto(p, first) /\ UNCHANGED sres
       ELSE SvcReturn(p, Result(Nil, ErrInvalidID))
    /\ UNCHANGED loc

HandleGetAdByID(p, idParam) ==
    /\ pc[p] = "idle"
    /\ LET id == ParseInt(idParam).n
       IN  IF BadID(idParam)
           THEN Reject(p, ReqGetPath(idParam, id))
           ELSE /\ StartOK(p, {id})
                /\ CallService(p, ReqGetPath(idParam, id), "get_cache")
    /\ UNCHANGED <<store, nextId, now, cache, env, calls, rres, hist>>

HandleUpdateAd(p, idParam, body) ==
    /\ pc[p] = "idle"
    /\ LET id  == ParseInt(idParam).n
           dec == Decode(body)
           ad  == [dec.ad EXCEPT !.ID = id]
       IN  IF BadID(idParam) \/ ~IsNil(dec.err)
           THEN Reject(p, ReqUpdatePath(idParam, body, ad))
           ELSE /\ StartOK(p, {id})
                /\ CallService(p, ReqUpdatePath(idParam, body, ad), "upd_exec")
    /\ UNCHANGED <<store, nextId, now, cache, env, calls, rres, hist>>

HandleDeleteAd(p, idParam) ==
    /\ pc[p] = "idle"
    /\ LET id == ParseInt(idParam).n
       IN  IF BadID(idParam)
           THEN Reject(p, ReqDeletePath(idParam, id))
           ELSE /\ StartOK(p, {id})
                /\ CallService(p, ReqDeletePath(idParam, id), "del_exec")
    /\ UNCHANGED <<store, nextId, now, cache, env, calls, rres, hist>>

\* A slip: not-found falls into the last branch.
StatusOf_NotFoundInternal(err) ==
    IF IsNil(err) THEN StatusOK
    ELSE IF ErrorsIs(err, ErrInvalidID) THEN StatusBadRequest
    ELSE StatusInternalServerError

\* if errors.Is(err, service.ErrInvalidID) {400} else if
\* errors.Is(err, service.ErrAdNotFound) {404} else {500}; no error: 200.
StatusOf(err) ==
    IF IsNil(err) THEN StatusOK
    ELSE IF ErrorsIs(err, ErrInvalidID) THEN StatusBadRequest
    ELSE IF ErrorsIs(err, ErrAdNotFound) THEN StatusNotFound
    ELSE StatusInternalServerError

\* The service has returned to the handler, which writes its response.
Respond(p) ==
    /\ pc[p] = "done"
    /\ ByPath(req[p])
    /\ WriteStatus(p, StatusOf(sres[p].err))
    /\ Goto(p, "responded")
    /\ UNCHANGED <<store, nextId, now, cache, env, req, calls, rres, sres, hist>>

\* The caller has its response; the goroutine ends.
Return(p) ==
    /\ \/ pc[p] = "responded"
       \/ pc[p] = "done" /\ ~ByPath(req[p])
    /\ pc' = [pc EXCEPT ![p] = "idle"]
    /\ req' = [req EXCEPT ![p] = NoReq]
    /\ loc' = [loc EXCEPT ![p] = NoLoc]
    /\ calls' = [calls EXCEPT ![p] = <<>>]
    /\ rres' = [rres EXCEPT ![p] = NoResult]
    /\ sres' = [sres EXCEPT ![p] = NoResult]
    \* History: the caller holds the success of its DeleteAd.
    /\ hist' = IF req[p].op = "DeleteAd" /\ sres[p].set /\ IsNil(sres[p].err)
               THEN [hist EXCEPT !.deleted = @ \cup {req[p].id}]
               ELSE [hist EXCEPT !.before[p] = Nil]
    /\ UNCHANGED <<store, nextId, now, cache, env>>

\* A second passes on the store's clock.
Tick ==
    /\ now < MaxClock
    /\ now' = now + 1
    /\ UNCHANGED <<store, nextId, cache, env, pc, req, loc, calls, rres, sres, hist>>

\* Redis drops an entry whose time to live has run out; an entry set with
\* the expiration 0 has none and stays.
Expire(key) ==
    /\ ~IsNil(cache[key])
    /\ Val(cache[key]).ttl > 0
    /\ cache' = [cache EXCEPT ![key] = Nil]
    /\ hist' = Wrote(key, "none", TRUE)
    /\ UNCHANGED <<store, nextId, now, env, pc, req, loc, calls, rres, sres>>

NextGet ==
    \/ \E p \in Procs, id \in ReqIds : SvcGetAdByID(p, id)
    \/ \E p \in Procs : GetCacheGet(p)
    \/ \E p \in Procs : GetQuery(p)
    \/ \E p \in Procs : GetCacheSet(p)

NextWrite ==
    \/ \E p \in Procs, id \in ReqIds, body \in Payloads : SvcUpdateAd(p, id, body)
    \/ \E p \in Procs : UpdExec(p)
    \/ \E p \in Procs : UpdCacheDelete(p)
    \/ \E p \in Procs : UpdReread(p)
    \/ \E p \in Procs : UpdCacheSet(p)
    \/ \E p \in Procs, id \in ReqIds : SvcDeleteAd(p, id)
    \/ \E p \in Procs : DelExec(p)
    \/ \E p \in Procs : DelCacheDelete(p)
    \/ \E p \in Procs, body \in Payloads : SvcCreateAd(p, body)
    \/ \E p \in Procs : CreInsert(p)
    \/ \E p \in Procs : CreReread(p)

NextList ==
    \/ \E p \in Procs, t \in ListParams : SvcGetAllAds(p, t[1], t[2], t[3], t[4])
    \/ \E p \in Procs : ListCacheGet(p)
    \/ \E p \in Procs : ListQuery(p)
    \/ \E p \in Procs : ListCacheSet(p)
    \/ \E p \in Procs : ListCount(p)

\* Another client of the Redis instance leaves a text that is not JSON under
\* a key, between two requests of the service.
Garble(key) ==
    /\ \A p \in Procs : pc[p] = "idle"
    /\ cache[key] # Some([val |-> Garbled, ttl |-> TTLMinutes])
    /\ cache' = [cache EXCEPT ![key] = Some([val |-> Garbled, ttl |-> TTLMinutes])]
    /\ hist' = Wrote(key, "outside", TRUE)
    /\ UNCHANGED <<store, nextId, now, env, pc, req, loc, calls, rres, sres>>

NextEnv ==
    \/ \E p \in Procs : Return(p)
    \/ Tick
    \/ \E key \in Keys : Expire(key)

\* The pagination arithmetic, over the counts, limits and offsets it may be
\* given: small ones and the largest an int holds.
Counts  == 0..MaxCount
Limits  == (1..MaxLimit) \cup {MaxInt - 1, MaxInt}
Offsets == (0..MaxOffset) \cup {MaxInt}
Caller  == CHOOSE p \in Procs : TRUE

NextPaging ==
    \/ \E totalCount \in Counts, limit \in Limits, offset \in Offsets :
           Paginate(Caller, totalCount, limit, offset)
    \/ \E p \in Procs : Return(p)

\* GET /ads for every query string, one request at a time.
NextHandler ==
    \/ \E q \in Queries : HandleGetAllAds(Caller, q)
    \/ \E p \in Procs : ListCacheGet(p)
    \/ \E p \in Procs : ListQuery(p)
    \/ \E p \in Procs : ListCacheSet(p)
    \/ \E p \in Procs : ListCount(p)
    \/ \E p \in Procs : Return(p)

\* Every request of the service.
Next == NextGet \/ NextWrite \/ NextList \/ NextEnv
\* Reads of single ads, and writes.
NextAd == NextGet \/ NextWrite \/ NextEnv

Env(cacheFaults, dbFaults, overlap) ==
    [cacheFaults |-> cacheFaults, dbFaults |-> dbFaults, overlap |-> overlap]

\* Requests overlap freely; cache calls and store calls may fail.
Init == InitState /\ env = Env(TRUE, TRUE, TRUE)
Spec == Init /\ [][Next]_vars
SpecAd == Init /\ [][NextAd]_vars

\* The same, with the history of the table's rows.
InitHeld ==
    /\ InitState
    /\ env = [cacheFaults |-> TRUE, dbFaults |-> TRUE, overlap |-> TRUE,
              history |-> TRUE]
SpecHeld == InitHeld /\ [][NextAd]_vars

\* Every cache call succeeds.
InitCacheOk == InitState /\ env = Env(FALSE, TRUE, TRUE)
SpecAdCacheOk == InitCacheOk /\ [][NextAd]_vars

\* Requests on the same id do not overlap.
InitSeq == InitState /\ env = Env(TRUE, TRUE, FALSE)
SpecSeq == InitSeq /\ [][Next]_vars

\* Requests on the same id do not overlap and every cache call succeeds.
InitSeqCacheOk == InitState /\ env = Env(FALSE, TRUE, FALSE)
SpecSeqCacheOk == InitSeqCacheOk /\ [][Next]_vars

\* GET /ads through its handler; cache and store calls may fail.
SpecHandler == InitSeq /\ [][NextHandler]_vars

\* service GetAllAds behind a repository that reports any count.
SpecPaging == InitSeqCacheOk /\ [][NextPaging]_vars

\* GET, PUT and DELETE on /ads/{id} through their handlers, for every path
\* parameter and body, on a table that CreateAd fills.
NextRoute ==
    \/ \E p \in Procs, t \in IdTexts : HandleGetAdByID(p, t)
    \/ \E p \in Procs : GetCacheGet(p)
    \/ \E p \in Procs : GetQuery(p)
    \/ \E p \in Procs : GetCacheSet(p)
    \/ \E p \in Procs, t \in IdTexts, body \in Bodies : HandleUpdateAd(p, t, body)
    \/ \E p \in Procs : UpdExec(p)
    \/ \E p \in Procs : UpdCacheDelete(p)
    \/ \E p \in Procs : UpdReread(p)
    \/ \E p \in Procs : UpdCacheSet(p)
    \/ \E p \in Procs, t \in IdTexts : HandleDeleteAd(p, t)
    \/ \E p \in Procs : DelExec(p)
    \/ \E p \in Procs : DelCacheDelete(p)
    \/ \E p \in Procs, body \in Payloads : SvcCreateAd(p, body)
    \/ \E p \in Procs : CreInsert(p)
    \/ \E p \in Procs : CreReread(p)
    \/ \E p \in Procs : Respond(p)
    \/ \E p \in Procs : Return(p)

SpecRoute == InitSeq /\ [][NextRoute]_vars

\* Reads of single ads and of pages, overlapping freely, on a table that
\* CreateAd fills.
NextReads ==
    \/ NextGet
    \/ NextList
    \/ \E p \in Procs, body \in Payloads : SvcCreateAd(p, body)
    \/ \E p \in Procs : CreInsert(p)
    \/ \E p \in Procs : CreReread(p)
    \/ NextEnv

SpecReads == Init /\ [][NextReads]_vars

\* The same reads, one at a time on an id, with a cache that another client
\* may fill with garbled texts.
NextGarbled ==
    \/ NextReads
    \/ \E key \in {KeyAd(i) : i \in Ids} \cup {KeyList} : Garble(key)

SpecGarbled == InitSeq /\ [][NextGarbled]_vars

\* UpdateAd on a table that earlier CreateAd calls filled: every id holds a
\* row or none.
FilledTables ==
    [RowIds -> {Nil} \cup {Some(InsertRow(0, AdOf(0, body), 1)) : body \in Payloads}]

InitRows ==
    /\ \E t \in FilledTables :
         store = [i \in RowIds |->
                    IF IsNil(t[i]) THEN Nil ELSE Some([Val(t[i]) EXCEPT !.id = i])]
    /\ nextId = MaxRows + 1
    /\ now = 1
    /\ cache = [k \in Keys \cup {KeyAd(i) : i \in RowIds} |-> Nil]
    /\ pc = [p \in Procs |-> "idle"]
    /\ req = [p \in Procs |-> NoReq]
    /\ loc = [p \in Procs |-> NoLoc]
    /\ calls = [p \in Procs |-> <<>>]
    /\ rres = [p \in Procs |-> NoResult]
    /\ sres = [p \in Procs |-> NoResult]
    /\ hist = [deleted |-> {},
               held |-> [i \in RowIds |-> {}],
               before |-> [p \in Procs |-> Nil],
               created |-> [i \in RowIds |-> Nil],
               lastUpdate |-> [i \in RowIds |-> Nil],
               writer |-> [k \in Keys \cup {KeyAd(i) : i \in RowIds} |-> "none"]]
    /\ env = Env(TRUE, TRUE, FALSE)

NextRows ==
    \/ \E p \in Procs, id \in {0} \cup RowIds, body \in Payloads :
          SvcUpdateAd(p, id, body)
    \/ \E p \in Procs : UpdExec(p)
    \/ \E p \in Procs : UpdCacheDelete(p)
    \/ \E p \in Procs : UpdReread(p)
    \/ \E p \in Procs : UpdCacheSet(p)
    \/ \E p \in Procs : Return(p)
    \/ Tick

SpecRows == InitRows /\ [][NextRows]_vars

\* UpdateAd on rows that CreateAd made and entries that GetAdByID wrote,
\* requests on an id one after another, store and cache calls failing at
\* will, no entry expiring; the row and the entry before each UpdateAd are
\* kept in the history.
InitBefore ==
    /\ InitState
    /\ env = [cacheFaults |-> TRUE, dbFaults |-> TRUE, overlap |-> FALSE,
              snapshots |-> TRUE]

NextBefore ==
    \/ NextGet
    \/ \E p \in Procs, id \in ReqIds, body \in Payloads : SvcUpdateAd(p, id, body)
    \/ \E p \in Procs : UpdExec(p)
    \/ \E p \in Procs : UpdCacheDelete(p)
    \/ \E p \in Procs : UpdReread(p)
    \/ \E p \in Procs : UpdCacheSet(p)
    \/ \E p \in Procs, body \in Payloads : SvcCreateAd(p, body)
    \/ \E p \in Procs : CreInsert(p)
    \/ \E p \in Procs : CreReread(p)
    \/ \E p \in Procs : Return(p)
    \/ Tick

SpecBefore == InitBefore /\ [][NextBefore]_vars

\* The clients issue their last CreateAd, UpdateAd or DeleteAd.
Quiesce ==
    /\ env.writes
    /\ env' = [env EXCEPT !.writes = FALSE]
    /\ UNCHANGED <<store, nextId, now, cache, pc, req, loc, calls, rres, sres, hist>>

\* GetAdByID and the default page read without end; writes are issued until
\* the clients stop issuing them.  Requests overlap freely; every call of
\* the cache and of the store succeeds.
InitQuiet ==
    /\ InitState
    /\ env = [cacheFaults |-> FALSE, dbFaults |-> FALSE, overlap |-> TRUE,
              writes |-> TRUE]

\* The next step of request p: a goroutine that has started runs on to its
\* return.
Progress(p) ==
    \/ GetCacheGet(p) \/ GetQuery(p) \/ GetCacheSet(p)
    \/ ListCacheGet(p) \/ ListQuery(p) \/ ListCacheSet(p) \/ ListCount(p)
    \/ UpdExec(p) \/ UpdCacheDelete(p) \/ UpdReread(p) \/ UpdCacheSet(p)
    \/ DelExec(p) \/ DelCacheDelete(p)
    \/ CreInsert(p) \/ CreReread(p)
    \/ Return(p)

NextQuiet ==
    \/ \E p \in Procs, id \in Ids : SvcGetAdByID(p, id)
    \/ \E p \in Procs :
          SvcGetAllAds(p, DefaultLimit, 0, DefaultSortBy, DefaultOrder)
    \/ \E p \in Procs, id \in Ids, body \in Payloads :
          env.writes /\ SvcUpdateAd(p, id, body)
    \/ \E p \in Procs, id \in Ids : env.writes /\ SvcDeleteAd(p, id)
    \/ \E p \in Procs, body \in Payloads : env.writes /\ SvcCreateAd(p, body)
    \/ \E p \in Procs : Progress(p)
    \/ Quiesce
    \/ \E key \in Keys : Expire(key)

\* Every request that has started runs to its return, and every entry
\* expires in the end.
SpecQuiet ==
    /\ InitQuiet
    /\ [][NextQuiet]_vars
    /\ \A p \in Procs : WF_vars(Progress(p))
    /\ \A key \in Keys : WF_vars(Expire(key))

----------------------------------------------------------------------------
(* Properties *)

IdOps == {"GetAdByID", "UpdateAd", "DeleteAd"}
Returned(p, op) == pc[p] = "done" /\ req[p].op = op
LastCall(cs) == cs[Len(cs)]
NoDbCall(cs, name) == \A i \in 1..Len(cs) : cs[i].call # name
NoCacheCall(cs) == \A i \in 1..Len(cs) : ~IsCacheCall(cs[i])
\* Request p takes a step.
Steps(p) == calls'[p] # calls[p] \/ pc'[p] # pc[p]

\* C1: for every id <= 0, GetAdByID, UpdateAd and DeleteAd of the service
\* return the invalid-id error and call neither the store nor the cache: the
\* request has returned as soon as it is issued, with an empty call log and
\* no repository result.
C1_InvalidIdRejected ==
    \A p \in Procs :
        (req[p].op \in IdOps /\ req[p].id <= 0) =>
            /\ pc[p] = "done"
            /\ sres[p] = Result(Nil, ErrInvalidID)
            /\ rres[p] = NoResult
            /\ calls[p] = <<>>

C1_Witness ==
    \E p, q \in Procs :
        /\ Returned(p, "UpdateAd") /\ req[p].id < 0
        /\ Returned(q, "GetAdByID") /\ req[q].id = 0
        /\ ~IsNil(store[1])

SameValues(ad, v) ==
    /\ ad.Title = v.Title
    /\ ad.Description = v.Description
    /\ ad.Price = v.Price
    /\ ad.Active = v.Active

\* C3: when requests on the same id do not overlap and every cache call
\* succeeds, a GetAdByID(id) that returns an ad after UpdateAd(id, v) has
\* returned success (and before the row is written again) returns the
\* values v under the id.
C3_ReadAfterUpdate ==
    \A p \in Procs :
        ( /\ Returned(p, "GetAdByID")
          /\ req[p].id \in Ids
          /\ ~IsNil(hist.lastUpdate[req[p].id])
          /\ IsNil(sres[p].err) )
        =>
        ( /\ ~IsNil(sres[p].val)
          /\ Val(sres[p].val).ID = req[p].id
          /\ SameValues(Val(sres[p].val), Val(hist.lastUpdate[req[p].id])) )

\* The read is served from the cache, and the update changed the values of
\* the row that had been created.
C3_Witness ==
    \E p \in Procs :
        /\ Returned(p, "GetAdByID")
        /\ req[p].id \in Ids
        /\ ~IsNil(hist.lastUpdate[req[p].id])
        /\ calls[p] = <<CacheCall("cache.Get", KeyAd(req[p].id), TRUE)>>
        /\ ~IsNil(sres[p].val)
        /\ Val(sres[p].val).Price = 40
        /\ Val(sres[p].val).UpdatedAt > Val(sres[p].val).CreatedAt

\* C4: after DeleteAd(id) has returned success, a GetAdByID(id) returns
\* not-found (or the store's transport error), never an ad; requests on the
\* same id do not overlap, cache calls may fail.
C4_NotFoundAfterDelete ==
    \A p \in Procs :
        (Returned(p, "GetAdByID") /\ req[p].id \in hist.deleted) =>
            /\ IsNil(sres[p].val)
            /\ sres[p].err \in {ErrAdNotFound, ErrBadConn}

\* C5: with every cache call succeeding, once no request is in flight the
\* entry "ad:<id>" is absent or is the store's current row for id.
C5_QuiescentCacheAgrees ==
    (\A p \in Procs : pc[p] = "idle") =>
        \A id \in Ids :
            \/ IsNil(cache[KeyAd(id)])
            \/ /\ ~IsNil(store[id])
               /\ Val(cache[KeyAd(id)]).val = Marshal(Scan(Val(store[id])))

\* A GetAllAds request whose parameters are not exactly (10, 0, "created_at",
\* "ASC").
NonDefault(r) ==
    /\ r.op = "GetAllAds"
    /\ <<r.limit, r.offset, r.sortBy, r.order>> # <<10, 0, "created_at", "ASC">>

\* C6: a GetAllAds request with any parameters other than (10, 0,
\* "created_at", "ASC") makes no cache call on any key, none of its steps
\* changes the cache, and its first call is the store's list query.
C6_NonDefaultBypassesCache ==
    [][\A p \in Procs :
         NonDefault(req'[p]) =>
             /\ NoCacheCall(calls'[p])
             /\ Steps(p) => cache' = cache
             /\ pc'[p] \in {"list_query", "list_count", "done"}
             /\ pc'[p] \in {"list_count", "done"} =>
                    /\ calls'[p] # <<>>
                    /\ calls'[p][1].call = "db.Query"
    ]_vars

\* A non-default request has returned a page while "ads:default_page" holds
\* an entry.
C6_Witness ==
    \E p \in Procs :
        /\ Returned(p, "GetAllAds")
        /\ NonDefault(req[p])
        /\ req[p].order = "DESC"
        /\ ~IsNil(cache[KeyList])
        /\ IsNil(sres[p].err)
        /\ Len(Val(sres[p].val).Ads) = 1

\* The request has the default parameters.
DefaultList(r) ==
    /\ r.op = "GetAllAds"
    /\ <<r.limit, r.offset, r.sortBy, r.order>> = <<10, 0, "created_at", "ASC">>

\* C7: for the default parameters, repository GetAllAds returns the list of
\* the entry "ads:default_page" with no store list query when the cache read
\* succeeds and the entry parses; on a miss it queries the store, returns
\* the rows it read and writes them under "ads:default_page" with a time to
\* live of 10 minutes.
C7_DefaultPageCacheAside ==
    [][\A p \in Procs :
         (DefaultList(req[p]) /\ Steps(p)) =>
             /\ ( /\ pc[p] = "list_cache"
                  /\ LastCall(calls'[p]).ok
                  /\ ~IsNil(cache[KeyList])
                  /\ IsNil(UnmarshalList(Val(cache[KeyList]).val).err) )
                =>
                ( /\ rres'[p] =
                       Result(Some(UnmarshalList(Val(cache[KeyList]).val).ads), Nil)
                  /\ pc'[p] = "list_count"
                  /\ calls'[p] = <<CacheCall("cache.Get", KeyList, TRUE)>>
                  /\ cache' = cache )
             /\ (pc[p] = "list_cache" /\ IsNil(cache[KeyList])) =>
                    pc'[p] = "list_query" /\ ~rres'[p].set
             /\ (pc[p] = "list_query" /\ LastCall(calls'[p]).ok) =>
                    /\ pc'[p] = "list_set"
                    /\ \E rows \in SelectPage(store, 10, 0, "created_at", "ASC") :
                           loc'[p].ads = [i \in 1..Len(rows) |-> Scan(rows[i])]
             /\ pc[p] = "list_set" =>
                    /\ rres'[p] = Result(Some(loc[p].ads), Nil)
                    /\ pc'[p] = "list_count"
                    /\ LastCall(calls'[p]).call = "cache.Set"
                    /\ LastCall(calls'[p]).key = KeyList
                    /\ LastCall(calls'[p]).ok =>
                           cache' = [cache EXCEPT ![KeyList] =
                                       Some([val |-> MarshalList(loc[p].ads),
                                             ttl |-> 10])]
    ]_vars

\* A default request is served the cached list, one ad long, and made no
\* store list query.
C7_Witness ==
    \E p \in Procs :
        /\ DefaultList(req[p])
        /\ pc[p] = "done"
        /\ calls[p][1] = CacheCall("cache.Get", KeyList, TRUE)
        /\ NoDbCall(calls[p], "db.Query")
        /\ rres[p].set
        /\ Len(Val(rres[p].val)) = 1
        /\ IsNil(sres[p].err)
        /\ Val(sres[p].val).Ads = Val(rres[p].val)

CacheErrors == {RedisNil, RedisDown}
\* No error of the cache is in the chain of err.
NoCacheError(err) == \A e \in CacheErrors : ~ErrorsIs(err, e)

\* C8: a cache call of GetAdByID, GetAllAds, UpdateAd or DeleteAd that fails
\* changes nothing in what the request returns: a failed get falls through
\* to the store query with no result set, a failed set or delete is followed
\* by the same return as a successful one, the value read from the store,
\* and no returned error has an error of the cache in its chain.
C8_CacheFailureNotAnError ==
    [][\A p \in Procs :
         /\ NoCacheError(rres'[p].err) /\ NoCacheError(sres'[p].err)
         /\ ( /\ Steps(p)
              /\ Len(calls'[p]) = Len(calls[p]) + 1
              /\ IsCacheCall(LastCall(calls'[p]))
              /\ ~LastCall(calls'[p]).ok )
            =>
            /\ cache' = cache
            /\ CASE pc[p] = "get_cache" ->
                      pc'[p] = "get_query" /\ ~rres'[p].set /\ ~sres'[p].set
                 [] pc[p] = "list_cache" ->
                      pc'[p] = "list_query" /\ ~rres'[p].set /\ ~sres'[p].set
                 [] pc[p] \in {"get_set", "upd_set"} ->
                      /\ pc'[p] = "done"
                      /\ sres'[p] = Result(loc[p].ad, Nil)
                      /\ ~IsNil(loc[p].ad)
                 [] pc[p] = "list_set" ->
                      /\ pc'[p] = "list_count"
                      /\ rres'[p] = Result(Some(loc[p].ads), Nil)
                 [] pc[p] = "upd_del" ->
                      pc'[p] = "upd_reread" /\ ~sres'[p].set
                 [] pc[p] = "del_del" ->
                      pc'[p] = "done" /\ sres'[p] = Result(Nil, Nil)
                 [] OTHER -> FALSE
    ]_vars

\* An UpdateAd whose cache delete and cache set both failed has returned the
\* row it read back from the store.
C8_Witness ==
    \E p \in Procs :
        /\ Returned(p, "UpdateAd")
        /\ Len(calls[p]) = 4
        /\ ~calls[p][2].ok /\ calls[p][2].call = "cache.Delete"
        /\ ~calls[p][4].ok /\ calls[p][4].call = "cache.Set"
        /\ IsNil(sres[p].err)
        /\ Val(sres[p].val) = Scan(Val(store[req[p].id]))

\* C9: a GetAdByID(id) that misses the cache and finds no row for id in the
\* store returns not-found without a cache set, and neither of its two steps
\* changes the cache.
C9_NegativeNotCached ==
    [][\A p \in Procs :
         (req[p].op = "GetAdByID" /\ Steps(p)) =>
             /\ pc[p] \in {"get_cache", "get_query"} => cache' = cache
             /\ ( /\ pc[p] = "get_query"
                  /\ LastCall(calls'[p]).ok
                  /\ IsNil(store[req[p].id]) )
                =>
                ( /\ pc'[p] = "done"
                  /\ rres'[p] = Result(Nil, ErrNoRows)
                  /\ sres'[p] = Result(Nil, ErrAdNotFound)
                  /\ Len(calls'[p]) = 2
                  /\ calls'[p][1].call = "cache.Get"
                  /\ calls'[p][2] = DbCall("db.QueryRow", TRUE) )
    ]_vars

\* A read of a deleted ad has missed the cache and returned not-found.
C9_Witness ==
    \E p \in Procs :
        /\ Returned(p, "GetAdByID")
        /\ req[p].id \in hist.deleted
        /\ calls[p] = <<CacheCall("cache.Get", KeyAd(req[p].id), TRUE),
                        DbCall("db.QueryRow", TRUE)>>
        /\ sres[p] = Result(Nil, ErrAdNotFound)
        /\ \A k \in Keys : IsNil(cache[k])

\* The rows the store reports for the statement request p is about to send.
RowsAffected(p) ==
    IF req[p].op = "UpdateAd"
    THEN UpdateRowsAffected(store, req[p].ad, now)
    ELSE DeleteRowsAffected(store, req[p].id)

\* C10: when the store reports zero rows affected, UpdateAd and DeleteAd
\* return not-found after the one store call, make no cache call and leave
\* every cache entry as it was.
C10_ZeroRowsNoCache ==
    [][\A p \in Procs :
         ( /\ pc[p] \in {"upd_exec", "del_exec"}
           /\ Steps(p)
           /\ LastCall(calls'[p]).ok
           /\ RowsAffected(p) = 0 )
         =>
         ( /\ pc'[p] = "done"
           /\ rres'[p] = Result(Nil, ErrNoRows)
           /\ sres'[p] = Result(Nil, ErrAdNotFound)
           /\ calls'[p] = <<DbCall("db.Exec", TRUE)>>
           /\ cache' = cache )
    ]_vars

\* An UpdateAd has returned not-found while "ad:<id>" holds an entry.
C10_Witness ==
    \E p \in Procs :
        /\ Returned(p, "UpdateAd")
        /\ req[p].id \in Ids
        /\ sres[p] = Result(Nil, ErrAdNotFound)
        /\ calls[p] = <<DbCall("db.Exec", TRUE)>>
        /\ ~IsNil(cache[KeyAd(req[p].id)])

\* C11: CreateAd makes no cache call and none of its steps changes the cache;
\* no call of UpdateAd or DeleteAd is on "ads:default_page" and none of their
\* steps changes that entry; the entry changes only in the cache set of a
\* default-page GetAllAds that missed, or when it expires.
C11_WritesLeaveListCache ==
    [][/\ \A p \in Procs :
            /\ req'[p].op = "CreateAd" =>
                   /\ NoCacheCall(calls'[p])
                   /\ Steps(p) => cache' = cache
            /\ req'[p].op \in {"UpdateAd", "DeleteAd"} =>
                   /\ \A i \in 1..Len(calls'[p]) : calls'[p][i].key # KeyList
                   /\ Steps(p) => cache'[KeyList] = cache[KeyList]
       /\ cache'[KeyList] # cache[KeyList] =>
            \/ \E p \in Procs :
                   /\ DefaultList(req[p])
                   /\ pc[p] = "list_set"
                   /\ Steps(p)
                   /\ NoDbCall(calls[p], "cache.Set")
                   /\ \E i \in 1..Len(calls[p]) : calls[p][i].call = "db.Query"
            \/ /\ IsNil(cache'[KeyList])
               /\ \A p \in Procs : ~Steps(p)
    ]_vars

\* A CreateAd has returned its ad while "ads:default_page" still holds the
\* list read before the insert, which lacks the new ad.
C11_Witness ==
    \E p \in Procs :
        /\ Returned(p, "CreateAd")
        /\ IsNil(sres[p].err)
        /\ ~IsNil(sres[p].val)
        /\ ~IsNil(cache[KeyList])
        /\ UnmarshalList(Val(cache[KeyList]).val).ads = <<>>
        /\ CountRows(store) = 1

\* ceil(totalCount / limit), for totalCount >= 0 and limit >= 1.
Ceil(totalCount, limit) ==
    CHOOSE n \in 0..totalCount :
        n * limit >= totalCount /\ (n = 0 \/ (n - 1) * limit < totalCount)

\* C12: for every totalCount >= 0, limit >= 1 and offset >= 0 the result of
\* service GetAllAds has TotalPages = ceil(totalCount / limit) and
\* CurrentPage = floor(offset / limit) + 1.
C12_PageArithmetic ==
    \A p \in Procs :
        (Returned(p, "GetAllAds") /\ IsNil(sres[p].err)) =>
            /\ Val(sres[p].val).TotalPages = Ceil(loc[p].count, req[p].limit)
            /\ Val(sres[p].val).CurrentPage = (req[p].offset \div req[p].limit) + 1

\* C13: in every result of service GetAllAds, NextPage and PrevPage are
\* present (not 0) only as a page in 1..TotalPages: NextPage is absent on the
\* last page, PrevPage is absent on the first page, and a present value is
\* never greater than TotalPages.
C13_NeighbourPagesInRange ==
    \A p \in Procs :
        (Returned(p, "GetAllAds") /\ IsNil(sres[p].err)) =>
            LET r == Val(sres[p].val)
            IN  /\ r.NextPage # 0 => r.NextPage \in 1..r.TotalPages
                /\ r.PrevPage # 0 => r.PrevPage \in 1..r.TotalPages
                /\ r.CurrentPage >= r.TotalPages => r.NextPage = 0
                /\ r.CurrentPage = 1 => r.PrevPage = 0

\* A GET /ads request issued by the handler.
Routed(r) == r.op = "GetAllAds" /\ "query" \in DOMAIN r

\* C14: whatever the limit parameter of a GET /ads request (absent,
\* unparseable, 0 or negative), the limit the service is called with is at
\* least 1, so its division never has a zero divisor.
C14_LimitAtLeastOne ==
    \A p \in Procs :
        Routed(req[p]) =>
            /\ req[p].limit >= 1
            /\ sres[p].err # ErrDivide

\* Requests with limit "0", "-1", "a" and "" have gone through the service's
\* arithmetic with the default limit.
C14_Witness ==
    \E p \in Procs :
        /\ Returned(p, "GetAllAds")
        /\ Routed(req[p])
        /\ req[p].query.limit = <<"0">>
        /\ req[p].limit = 10
        /\ IsNil(sres[p].err)
        /\ Val(sres[p].val).CurrentPage = 11

\* The sort columns and sort directions a list request may name.
SortColumns == {"id", "title", "price", "created_at", "updated_at"}
SortDirections == {"ASC", "DESC"}
\* The text is a number greater than 0.
Positive(text) == IsNil(Atoi(text).err) /\ Atoi(text).n > 0

\* C15: for GET /ads every query parameter that is absent or invalid is
\* replaced by its default (limit 10, page 1, sortBy "created_at", order
\* "ASC"), the offset handed to the service is (page - 1) * limit of the
\* resulting page and limit, and a request with no parameters carries the
\* default-pagination tuple.
C15_DefaultsForBadParams ==
    \A p \in Procs :
        Routed(req[p]) =>
            LET q     == req[p].query
                limit == IF Positive(q.limit) THEN Atoi(q.limit).n ELSE 10
                page  == IF Positive(q.page) THEN Atoi(q.page).n ELSE 1
            IN  /\ req[p].limit = limit
                /\ req[p].offset = (page - 1) * limit
                /\ req[p].sortBy =
                       IF q.sortBy \in SortColumns THEN q.sortBy ELSE "created_at"
                /\ req[p].order =
                       IF q.order \in SortDirections THEN q.order ELSE "ASC"
                /\ (q.limit = <<>> /\ q.page = <<>> /\ q.sortBy = "" /\ q.order = "")
                       => DefaultList(req[p])

\* C16: every sort column that reaches the query text of repository
\* GetAllAds is one of id, title, price, created_at, updated_at and every
\* sort direction is ASC or DESC.
C16_SortAllowList ==
    \A p \in Procs :
        ( /\ req[p].op = "GetAllAds"
          /\ \E i \in 1..Len(calls[p]) : calls[p][i].call = "db.Query" )
        =>
        ( /\ req[p].sortBy \in SortColumns
          /\ req[p].order \in SortDirections )

\* C17: GetAdByID, UpdateAd and DeleteAd of the service return the not-found
\* error exactly when the repository's error is, or wraps, the store's
\* no-rows error; every other repository error is returned as it is, with
\* no value, and a repository success is returned as it is.
C17_NotFoundTranslation ==
    \A p \in Procs :
        (pc[p] = "done" /\ req[p].op \in IdOps /\ rres[p].set) =>
            /\ sres[p].err = ErrAdNotFound <=> ErrorsIs(rres[p].err, ErrNoRows)
            /\ ~ErrorsIs(rres[p].err, ErrNoRows) => sres[p].err = rres[p].err
            /\ ~IsNil(rres[p].err) => IsNil(sres[p].val) /\ ~IsNil(sres[p].err)
            /\ IsNil(rres[p].err) => sres[p] = rres[p]

\* An UpdateAd whose row was deleted before it read it back has returned
\* not-found for the wrapped no-rows error, while a DeleteAd has returned the
\* store's connection error unchanged.
C17_Witness ==
    \E p, q \in Procs :
        /\ Returned(p, "UpdateAd")
        /\ rres[p].err = Wrap("failed to fetch updated ad", ErrNoRows)
        /\ sres[p].err = ErrAdNotFound
        /\ Returned(q, "DeleteAd")
        /\ rres[q].err = Wrap("failed to delete ad", ErrBadConn)
        /\ sres[q].err = rres[q].err

\* C18: repository UpdateAd and DeleteAd return the no-rows error if and only
\* if the table has no row with the id when their statement executes: an
\* existing row is never reported as not-found, and a failed statement
\* returns an error that does not match not-found.  Requests on the same id
\* do not overlap, so the row of a returned request is the row its statement
\* met, or the row the statement left.
C18_NotFoundIffNoRow ==
    \A p \in Procs :
        (pc[p] = "done" /\ req[p].op \in {"UpdateAd", "DeleteAd"} /\ rres[p].set) =>
            /\ ErrorsIs(rres[p].err, ErrNoRows) => IsNil(store[req[p].id])
            /\ (calls[p] = <<DbCall("db.Exec", TRUE)>> /\ IsNil(store[req[p].id]))
                   => rres[p].err = ErrNoRows
            /\ ~calls[p][1].ok =>
                   ~IsNil(rres[p].err) /\ ~ErrorsIs(rres[p].err, ErrNoRows)

\* C20: an ad created from a body that gives title, description and price
\* and no active field is stored and returned with active = true.
C20_ActiveDefaultsTrue ==
    \A p \in Procs :
        ( /\ Returned(p, "CreateAd")
          /\ IsNil(sres[p].err)
          /\ "Active" \notin DOMAIN req[p].body )
        =>
        ( /\ Val(sres[p].val).Active = TRUE
          /\ Val(store[Val(sres[p].val).ID]).active = TRUE )

\* C19: for GET, PUT and DELETE on /ads/{id} the status is 400 exactly when
\* the id is missing, unparseable or <= 0 or, for PUT, the body is
\* unparseable; 404 exactly when the service reports not-found; 500 for
\* every other service error; 200 on success; and a request gets exactly
\* one response, none before its handler is through.
C19_StatusByOutcome ==
    \A p \in Procs :
        ByPath(req[p]) =>
            IF pc[p] # "responded" THEN loc[p].w = <<>>
            ELSE LET status == loc[p].w[1]
                     badReq == \/ ~Positive(req[p].path)
                               \/ req[p].op = "UpdateAd" /\ req[p].body \notin Payloads
                 IN  /\ Len(loc[p].w) = 1
                     /\ status = 400 <=> badReq
                     /\ badReq => ~sres[p].set /\ calls[p] = <<>>
                     /\ status = 404 <=> sres[p].set /\ sres[p].err = ErrAdNotFound
                     /\ status = 500 <=>
                            /\ sres[p].set
                            /\ ~IsNil(sres[p].err)
                            /\ sres[p].err # ErrAdNotFound
                     /\ status = 200 <=> sres[p].set /\ IsNil(sres[p].err)

\* A PUT with a good id and a body that is not JSON was answered 400 while
\* a DELETE of a missing ad was answered 404.
C19_Witness ==
    \E p, q \in Procs :
        /\ pc[p] = "responded" /\ pc[q] = "responded"
        /\ req[p].op = "UpdateAd" /\ req[p].path = <<"1">>
        /\ req[p].body = Malformed
        /\ loc[p].w = <<400>>
        /\ req[q].op = "DeleteAd" /\ ByPath(req[q])
        /\ loc[q].w = <<404>>

\* A finished GET /ads/{id} for an id of the table.
GetDone(p) ==
    /\ pc[p] = "responded"
    /\ req[p].op = "GetAdByID"
    /\ req[p].id \in Ids

\* C21: requests coming one after another: a GET /ads/{id} after a
\* successful create of id returns the fields of the create response; after
\* a successful PUT it returns the updated fields; after a successful DELETE
\* it returns 404, and so does a further DELETE or PUT on that id (a store
\* failure, answered 500, aside).
C21_Lifecycle ==
    \A p \in Procs :
        /\ (GetDone(p) /\ loc[p].w = <<StatusOK>>) =>
               LET id == req[p].id
               IN  /\ ~IsNil(hist.created[id]) => sres[p].val = hist.created[id]
                   /\ ~IsNil(hist.lastUpdate[id]) =>
                          SameValues(Val(sres[p].val), Val(hist.lastUpdate[id]))
        /\ (GetDone(p) /\ req[p].id \in hist.deleted) =>
               loc[p].w[1] \in {StatusNotFound, StatusInternalServerError}
        /\ ( /\ pc[p] = "responded"
             /\ req[p].op \in {"UpdateAd", "DeleteAd"}
             /\ req[p].id \in hist.deleted
             /\ sres[p].set
             /\ calls[p] # <<>>
             /\ calls[p][1].ok ) =>
               loc[p].w = <<StatusNotFound>>

\* The label that matches a returned error: success for none, not_found for
\* the not-found result of the layer, error for anything else.
Outcome(err) ==
    IF IsNil(err) THEN "success"
    ELSE IF err \in {ErrNoRows, ErrAdNotFound} THEN "not_found"
    ELSE "error"

\* C22: every invocation of GetAdByID, CreateAd, UpdateAd and DeleteAd, of
\* the service and of the repository, records exactly one outcome label,
\* and the label matches the result returned: success, not_found for a
\* not-found result, error for any other failure, an invalid id included.
C22_OneMatchingOutcome ==
    \A p \in Procs :
        (pc[p] = "done" /\ req[p].op \in {"GetAdByID", "CreateAd", "UpdateAd", "DeleteAd"}) =>
            /\ SvcMetrics(req[p], rres[p]) = <<Outcome(sres[p].err)>>
            /\ rres[p].set => RepoMetrics(req[p], rres[p]) = <<Outcome(rres[p].err)>>

\* C23: concurrent reads are not deduplicated.  Whatever the other requests
\* are doing, a GetAdByID whose cache.Get gives no usable entry goes on to
\* its own store query, a query that finds the row goes on to its own
\* cache.Set, and the call returns the row it read itself; the same holds
\* for a default-page GetAllAds.
C23_NoSingleFlight ==
    [][\A p \in Procs :
         /\ (pc[p] = "get_cache" /\ pc'[p] # "get_cache") =>
                LET got == CacheGet(cache, KeyAd(req[p].id), LastCall(calls'[p]).ok)
                IN  IF AdCacheHit(got) THEN pc'[p] = "done"
                    ELSE pc'[p] = "get_query"
         /\ (pc[p] = "get_query" /\ pc'[p] # "get_query") =>
                IF LastCall(calls'[p]).ok /\ ~IsNil(store[req[p].id])
                THEN /\ pc'[p] = "get_set"
                     /\ loc'[p].ad = Some(Scan(Val(store[req[p].id])))
                ELSE pc'[p] = "done" /\ ~IsNil(sres'[p].err)
         /\ (pc[p] = "get_set" /\ pc'[p] # "get_set") =>
                /\ LastCall(calls'[p]).call = "cache.Set"
                /\ sres'[p] = Result(loc[p].ad, Nil)
         /\ (pc[p] = "list_cache" /\ pc'[p] # "list_cache") =>
                LET got == CacheGet(cache, KeyList, LastCall(calls'[p]).ok)
                IN  IF ListCacheHit(got) THEN pc'[p] = "list_count"
                    ELSE pc'[p] = "list_query"
         /\ (pc[p] = "list_query" /\ pc'[p] # "list_query" /\ DefaultList(req[p])) =>
                IF LastCall(calls'[p]).ok
                THEN pc'[p] = "list_set"
                ELSE pc'[p] = "done" /\ ~IsNil(sres'[p].err)
         /\ (pc[p] = "list_set" /\ pc'[p] # "list_set") =>
                /\ LastCall(calls'[p]).call = "cache.Set"
                /\ rres'[p] = Result(Some(loc[p].ads), Nil)
      ]_vars

\* Two GetAdByID calls for the same ad have both missed the cache and both
\* read the row, and neither has written the cache yet.
C23_Witness ==
    \E p, q \in Procs :
        /\ p # q
        /\ pc[p] = "get_set" /\ pc[q] = "get_set"
        /\ req[p].id = req[q].id
        /\ IsNil(cache[KeyAd(req[p].id)])
        /\ \A r \in {p, q} :
               calls[r] = <<CacheCall("cache.Get", KeyAd(req[r].id), TRUE),
                            DbCall("db.QueryRow", TRUE)>>

C25_UpdateOrder ==
    [][\A p \in Procs :
         LET key == KeyAd(req[p].id)
         IN  /\ (pc[p] = "upd_reread" /\ pc'[p] = "upd_set") =>
                    loc'[p].ad = Some(Scan(Val(store[req[p].id])))
             /\ (pc[p] = "upd_set" /\ pc'[p] # "upd_set") =>
                    /\ sres'[p] = Result(loc[p].ad, Nil)
                    /\ loc[p].ad # Some(req[p].ad)
                    /\ LastCall(calls'[p]).ok =>
                           cache'[key] = Some([val |-> Marshal(Val(loc[p].ad)), ttl |-> 10])
             /\ ( /\ req[p].op = "UpdateAd"
                  /\ pc[p] # "done" /\ pc'[p] = "done"
                  /\ IsNil(sres'[p].err) ) =>
                    /\ Len(calls'[p]) = 4
                    /\ calls'[p][1] = DbCall("db.Exec", TRUE)
                    /\ \E ok \in BOOLEAN : calls'[p][2] = CacheCall("cache.Delete", key, ok)
                    /\ calls'[p][3] = DbCall("db.QueryRow", TRUE)
                    /\ \E ok \in BOOLEAN : calls'[p][4] = CacheCall("cache.Set", key, ok)
      ]_vars

\* An UpdateAd has returned the re-read row, with the store's timestamps,
\* and the entry "ad:<id>" holds that row.
C25_Witness ==
    \E p \in Procs :
        /\ Returned(p, "UpdateAd")
        /\ IsNil(sres[p].err)
        /\ calls[p] = <<DbCall("db.Exec", TRUE),
                        CacheCall("cache.Delete", KeyAd(req[p].id), TRUE),
                        DbCall("db.QueryRow", TRUE),
                        CacheCall("cache.Set", KeyAd(req[p].id), TRUE)>>
        /\ Val(sres[p].val).UpdatedAt > Val(sres[p].val).CreatedAt
        /\ req[p].ad.UpdatedAt = 0
        /\ cache[KeyAd(req[p].id)] = Some([val |-> Marshal(Val(sres[p].val)), ttl |-> 10])

\* The text under key does not parse as what the key should hold.
Unparseable(key) ==
    /\ ~IsNil(cache[key])
    /\ IF key = KeyList
       THEN ~IsNil(UnmarshalList(Val(cache[key]).val).err)
       ELSE ~IsNil(Unmarshal(Val(cache[key]).val).err)

\* C26: a read that finds an unparseable text under "ad:<id>" (or under
\* "ads:default_page") goes on as after a miss: it queries the store,
\* returns what the store gives, and when the store query succeeds it
\* overwrites the unparseable entry with the store's value.
C26_UnparseableIsMiss ==
    [][\A p \in Procs :
         LET key == IF req[p].op = "GetAllAds" THEN KeyList ELSE KeyAd(req[p].id)
         IN  /\ (pc[p] = "get_cache" /\ pc'[p] # "get_cache" /\ Unparseable(key)) =>
                    pc'[p] = "get_query" /\ ~sres'[p].set
             /\ (pc[p] = "get_query" /\ pc'[p] # "get_query" /\ Unparseable(key)) =>
                    IF LastCall(calls'[p]).ok /\ ~IsNil(store[req[p].id])
                    THEN /\ pc'[p] = "get_set"
                         /\ loc'[p].ad = Some(Scan(Val(store[req[p].id])))
                    ELSE /\ pc'[p] = "done"
                         /\ sres'[p].err \in {ErrAdNotFound, ErrBadConn}
             /\ (pc[p] = "get_set" /\ pc'[p] # "get_set" /\ Unparseable(key)) =>
                    /\ sres'[p] = Result(loc[p].ad, Nil)
                    /\ LastCall(calls'[p]).ok =>
                           Val(cache'[key]).val = Marshal(Val(loc[p].ad))
             /\ (pc[p] = "list_cache" /\ pc'[p] # "list_cache" /\ Unparseable(key)) =>
                    pc'[p] = "list_query" /\ ~rres'[p].set
             /\ ( /\ pc[p] = "list_query" /\ pc'[p] # "list_query"
                  /\ DefaultList(req[p]) /\ Unparseable(key) ) =>
                    IF LastCall(calls'[p]).ok
                    THEN pc'[p] = "list_set" /\ ~rres'[p].set
                    ELSE pc'[p] = "done" /\ ~IsNil(sres'[p].err)
             /\ (pc[p] = "list_set" /\ pc'[p] # "list_set" /\ Unparseable(key)) =>
                    /\ rres'[p] = Result(Some(loc[p].ads), Nil)
                    /\ LastCall(calls'[p]).ok =>
                           Val(cache'[key]).val = MarshalList(loc[p].ads)
      ]_vars

\* A GetAdByID has found the garbled text under its key, has read the row
\* from the store and is about to overwrite the entry.
C26_Witness ==
    \E p \in Procs :
        /\ pc[p] = "get_set"
        /\ Unparseable(KeyAd(req[p].id))
        /\ calls[p] = <<CacheCall("cache.Get", KeyAd(req[p].id), TRUE),
                        DbCall("db.QueryRow", TRUE)>>
        /\ loc[p].ad = Some(Scan(Val(store[req[p].id])))

\* C27: UpdateAd changes only the title, description, price, active and
\* updated_at of the row with the given id.  In every step of a table on
\* which only UpdateAd runs, no row is created and none disappears, every
\* row keeps its id and its created_at, its updated_at does not go back, and
\* a row that changes is the row of the id of an UpdateAd whose UPDATE
\* statement succeeds in this step, and takes the request's title,
\* description, price and active and the store's current time.
C27_UpdateFrame ==
    [][\A i \in DOMAIN store :
         /\ IsNil(store[i]) <=> IsNil(store'[i])
         /\ ~IsNil(store[i]) =>
                /\ Val(store'[i]).id = Val(store[i]).id
                /\ Val(store'[i]).created_at = Val(store[i]).created_at
                /\ Val(store'[i]).updated_at >= Val(store[i]).updated_at
         /\ store'[i] # store[i] =>
                \E p \in Procs :
                    /\ pc[p] = "upd_exec" /\ req[p].op = "UpdateAd"
                    /\ req[p].id = i
                    /\ calls'[p] = Append(calls[p], DbCall("db.Exec", TRUE))
                    /\ Val(store'[i]).title = req[p].ad.Title
                    /\ Val(store'[i]).description = req[p].ad.Description
                    /\ Val(store'[i]).price = req[p].ad.Price
                    /\ Val(store'[i]).active = req[p].ad.Active
                    /\ Val(store'[i]).updated_at = now]_vars

\* An UPDATE has rewritten one of two rows a second after both were created.
C27_Witness ==
    \E p \in Procs :
        /\ pc[p] = "upd_del"
        /\ \A i \in RowIds : ~IsNil(store[i])
        /\ \E j \in RowIds \ {req[p].id} :
               /\ Val(store[j]).price # req[p].ad.Price
               /\ Val(store[j]).updated_at = Val(store[j]).created_at
        /\ Val(store[req[p].id]).price = req[p].ad.Price
        /\ Val(store[req[p].id]).updated_at > Val(store[req[p].id]).created_at

\* C28: sequential cache/store agreement for single ads.  When the
\* operations on an id run one after another and every cache call succeeds,
\* then in every state in which no operation on the id is under way an
\* entry "ad:<id>" holds the JSON of the store's current row for the id, and
\* the key of an id without a row holds no entry.
C28_SequentialAgreement ==
    \A i \in ReqIds :
        (\A p \in Procs : pc[p] \in {"idle", "done"} \/ i \notin Touches(p)) =>
            ( ~IsNil(cache[KeyAd(i)]) =>
                  /\ ~IsNil(SelectById(store, i))
                  /\ Val(cache[KeyAd(i)]).val = Marshal(Scan(Val(store[i]))) )

\* Between operations the cache holds the row an UpdateAd wrote and re-read.
C28_Witness ==
    /\ \A p \in Procs : pc[p] \in {"idle", "done"}
    /\ \E i \in Ids :
          /\ ~IsNil(cache[KeyAd(i)]) /\ ~IsNil(store[i])
          /\ hist.writer[KeyAd(i)] = "UpdateAd"
          /\ Val(store[i]).updated_at > Val(store[i]).created_at
          /\ Val(cache[KeyAd(i)]).val = Marshal(Scan(Val(store[i])))

\* C29: key/value correspondence.  In every reachable state, with requests
\* overlapping freely and store and cache calls failing at will, the text
\* under a key "ad:<id>" parses to an ad whose ID is id and whose fields are
\* those of a row the store has held for that id (now or earlier).
C29_KeyValueCorrespondence ==
    \A i \in ReqIds :
        ~IsNil(cache[KeyAd(i)]) =>
            LET got == Unmarshal(Val(cache[KeyAd(i)]).val)
            IN  /\ IsNil(got.err)
                /\ got.ad.ID = i
                /\ i \in DOMAIN hist.held
                /\ \E row \in hist.held[i] : got.ad = Scan(row)

\* The cache holds a row that an overlapping UpdateAd has since replaced.
C29_Witness ==
    \E i \in Ids :
        /\ ~IsNil(cache[KeyAd(i)]) /\ ~IsNil(store[i])
        /\ Unmarshal(Val(cache[KeyAd(i)]).val).ad # Scan(Val(store[i]))
        /\ Cardinality(hist.held[i]) > 1

\* C30: in every response of service GetAllAds the list and the pagination
\* describe the same state of the store: the list is no longer than the
\* total count TotalPages was computed from, also when the default page
\* comes from the cache after ads were created or deleted.
C30_ListWithinCount ==
    \A p \in Procs :
        ( /\ pc[p] = "done" /\ req[p].op = "GetAllAds"
          /\ sres[p].set /\ IsNil(sres[p].err) ) =>
            /\ Len(Val(sres[p].val).Ads) <= loc[p].count
            /\ Val(sres[p].val).TotalPages =
                   TotalPages(loc[p].count, req[p].limit)

\* C32: a successful UpdateAd(id, v) returns an ad whose id is id and whose
\* title, description, price and active are those of v, under every
\* interleaving with other UpdateAd and DeleteAd requests on the same id.
C32_ReturnsRequestedValues ==
    \A p \in Procs :
        (Returned(p, "UpdateAd") /\ IsNil(sres[p].err)) =>
            /\ Val(sres[p].val).ID = req[p].id
            /\ SameValues(Val(sres[p].val), req[p].ad)

\* C31: failure atomicity of UpdateAd.  Whenever repository UpdateAd has
\* returned an error, not-found or any other, the store's row for the id
\* and the entry "ad:<id>" are what they were when the call was made.
C31_FailureAtomicity ==
    \A p \in Procs :
        ( /\ Returned(p, "UpdateAd")
          /\ rres[p].set /\ ~IsNil(rres[p].err)
          /\ ~IsNil(hist.before[p]) ) =>
            /\ SelectById(store, req[p].id) = Val(hist.before[p]).row
            /\ cache[KeyAd(req[p].id)] = Val(hist.before[p]).entry

\* What a read that has returned holds is what the store holds now: the row
\* of the id, not-found for an id without a row, the first page of the table.
Current(p) ==
    /\ (Returned(p, "GetAdByID") /\ ValidID(req[p].id)) =>
           IF IsNil(SelectById(store, req[p].id))
           THEN sres[p] = Result(Nil, ErrAdNotFound)
           ELSE sres[p] = Result(Some(Scan(Val(store[req[p].id]))), Nil)
    /\ (Returned(p, "GetAllAds") /\ IsNil(sres[p].err)) =>
           \E rows \in SelectPage(store, DefaultLimit, 0, "created_at", "ASC") :
               Val(sres[p].val).Ads = [i \in 1..Len(rows) |-> Scan(rows[i])]

\* C33: staleness is bounded by expiry.  Once no CreateAd, UpdateAd or
\* DeleteAd is issued any more, and with every entry expiring in the end,
\* from some moment on every GetAdByID(id) returns the store's current row
\* for id, or not-found when there is none, and every default-page GetAllAds
\* returns the store's current first page.
C33_StalenessEnds ==
    [](~env.writes => <>[](\A p \in Procs : Current(p)))

\* After the last write was issued a GetAdByID has returned, from the cache
\* alone, an ad that is not the store's row.
C33_Witness ==
    \E p \in Procs :
        /\ ~env.writes
        /\ Returned(p, "GetAdByID") /\ IsNil(sres[p].err)
        /\ calls[p] = <<CacheCall("cache.Get", KeyAd(req[p].id), TRUE)>>
        /\ sres[p].val # Some(Scan(Val(store[req[p].id])))
        /\ ~IsNil(store[req[p].id])

====
